---- MODULE Spec2Model ----
(***************************************************************************)
(* Organization statistics aggregation: the cache store, the paginator,    *)
(* the contributor statistics polling loop, the stats calculator,          *)
(* getOrganization, the Organization view model and the Dashboard.         *)
(*                                                                         *)
(* Record dates (created_at, closed_at, week starts, range ends) are       *)
(* month stamps: year * 12 + month, month 0..11.  NullDate stands for an   *)
(* absent date (closed_at: null, archived_at: null).  The cache clock is   *)
(* in milliseconds, as new Date().getTime() gives it.                      *)
(***************************************************************************)
EXTENDS Integers, Sequences, FiniteSets, TLC

VARIABLES
    localStorage,   \* the single slot stored under CACHE_KEY
    now,            \* the wall clock, ms
    ticks,          \* clock advances made so far
    pc,             \* position of the current getOrganization call
    req,            \* its arguments: orgName, dateRange
    members,        \* the member listing it got
    ownRepos,       \* the non-fork repositories of the listing it got
    repoStats,      \* per own repository: pending, failed (null) or its stats
    fetched,        \* per own repository: what its fetches answered
    processed,      \* the processed counter
    progressLog,    \* the onProgress invocations, in order
    calls,          \* remote requests issued by the current call, per kind
    result,         \* what the call returned
    lastGet,        \* the cache lookup the call made: key, time, store left, answer
    lastSaved,      \* the report handed to the last save still in the store
    statsCall,      \* one getContributorStats call: the polling loop
    calc,           \* one stats-calculator evaluation: input and output
    organization,   \* the Organization the dashboard wrapped around a report
    view,           \* the last query made of it: the report given, the answer
    listedForks,    \* the forks in the repository listing the current call got
    cacheOps,       \* the cache operations made, in order
    dashboard,      \* the Dashboard component: credentials, effects, displayed data
    paging,         \* one getAllPages call: the requests made, the items gathered
    batching        \* one getMemberContributions call: the batch in flight, the totals

vars == << localStorage, now, ticks, pc, req, members, ownRepos, repoStats,
           fetched, processed, progressLog, calls, result, lastGet, lastSaved,
           statsCall, calc, organization, view, listedForks, cacheOps,
           dashboard, paging, batching >>

orgVars == << localStorage, now, ticks, pc, req, members, ownRepos, repoStats,
              fetched, processed, progressLog, calls, result, lastGet, lastSaved,
              listedForks, cacheOps >>

----------------------------------------------------------------------------
(* Bounds *)

MaxTicks == 2
MaxRepos == 2
MaxIssues == 3
MaxPRs == 3
MaxSeries == 3

----------------------------------------------------------------------------
(* Dates *)

NullDate == -1

getFullYear(d) == d \div 12

getMonth(d) == d % 12

Months == 0 .. 11

----------------------------------------------------------------------------
(* Sequence helpers *)

RECURSIVE SumSeq(_)
SumSeq(s) == IF s = << >> THEN 0 ELSE Head(s) + SumSeq(Tail(s))

----------------------------------------------------------------------------
(* Strings are sequences of one-character strings *)

UpperChars == << "A", "B", "C", "D", "E", "F", "G", "H", "I", "J", "K", "L", "M",
                 "N", "O", "P", "Q", "R", "S", "T", "U", "V", "W", "X", "Y", "Z" >>

LowerChars == << "a", "b", "c", "d", "e", "f", "g", "h", "i", "j", "k", "l", "m",
                 "n", "o", "p", "q", "r", "s", "t", "u", "v", "w", "x", "y", "z" >>

Digits == << "0", "1", "2", "3", "4", "5", "6", "7", "8", "9" >>

IndexOf(seq, c) == IF \E i \in DOMAIN seq : seq[i] = c
                   THEN CHOOSE i \in DOMAIN seq : seq[i] = c
                   ELSE 0

toLowerCase(str) ==
    [ i \in DOMAIN str |->
        IF IndexOf(UpperChars, str[i]) # 0 THEN LowerChars[IndexOf(UpperChars, str[i])]
        ELSE str[i] ]

includes(str, c) == \E i \in DOMAIN str : str[i] = c

\* str.split("/")[0]: the part before the first separator, the whole string without one
splitFirst(str, c) ==
    IF includes(str, c)
    THEN SubSeq(str, 1, (CHOOSE i \in DOMAIN str :
                            str[i] = c /\ \A j \in 1 .. i - 1 : str[j] # c) - 1)
    ELSE str

Unknown == << "u", "n", "k", "n", "o", "w", "n" >>

----------------------------------------------------------------------------
(* A JavaScript object used as a map: its own keys in enumeration order,     *)
(* integer-like keys first in ascending numeric order, then the other keys  *)
(* in insertion order.  Modelled as a sequence of [key, value] entries.     *)

IsArrayIndex(key) ==
    /\ Len(key) >= 1
    /\ \A i \in DOMAIN key : IndexOf(Digits, key[i]) # 0
    /\ (Len(key) = 1 \/ key[1] # "0")

RECURSIVE KeyNum(_)
KeyNum(key) ==
    IF key = << >> THEN 0
    ELSE 10 * KeyNum(SubSeq(key, 1, Len(key) - 1)) + (IndexOf(Digits, key[Len(key)]) - 1)

ObjHas(obj, key) == \E i \in DOMAIN obj : obj[i].key = key

\* obj[key] || 0
ObjGet(obj, key) ==
    IF ObjHas(obj, key) THEN obj[CHOOSE i \in DOMAIN obj : obj[i].key = key].value ELSE 0

\* obj[key] = value
ObjSet(obj, key, value) ==
    IF ObjHas(obj, key)
    THEN [ i \in DOMAIN obj |-> IF obj[i].key = key THEN [key |-> key, value |-> value]
                                ELSE obj[i] ]
    ELSE IF IsArrayIndex(key)
         THEN LET before == SelectSeq(obj, LAMBDA e :
                                IsArrayIndex(e.key) /\ KeyNum(e.key) < KeyNum(key))
                  after == SelectSeq(obj, LAMBDA e :
                                ~(IsArrayIndex(e.key) /\ KeyNum(e.key) < KeyNum(key)))
              IN before \o << [key |-> key, value |-> value] >> \o after
         ELSE Append(obj, [key |-> key, value |-> value])

ObjKeys(obj) == { obj[i].key : i \in DOMAIN obj }

----------------------------------------------------------------------------
(* Stats calculator *)

\* pr.head?.ref is truthy
HasRef(pr) == pr.hasHead /\ pr.ref # << >>

PRType(pr) ==
    IF HasRef(pr)
    THEN IF includes(pr.ref, "/") THEN toLowerCase(splitFirst(pr.ref, "/")) ELSE Unknown
    ELSE Unknown

RECURSIVE CountTypes(_, _)
CountTypes(closedPRs, types) ==
    IF closedPRs = << >> THEN types
    ELSE CountTypes(Tail(closedPRs),
                    ObjSet(types, PRType(Head(closedPRs)),
                           ObjGet(types, PRType(Head(closedPRs))) + 1))

\* mutant: pull requests of every state are counted
categorizePRTypes_AllStates(prs) == CountTypes(prs, << >>)

\* mutant: counting ends at the first pull request that is not closed
categorizePRTypes_StopsAtOpen(prs) ==
    CountTypes(SubSeq(prs, 1, Cardinality({ i \in DOMAIN prs :
                                  \A j \in 1 .. i : prs[j].state = "closed" })),
               << >>)

categorizePRTypes(prs) ==
    CountTypes(SelectSeq(prs, LAMBDA pr : pr.state = "closed"), << >>)


\* the stable sort by creation time: x goes after every element created no later
RECURSIVE SortByCreated(_)
SortByCreated(s) ==
    IF s = << >> THEN << >>
    ELSE LET rest == SortByCreated(SubSeq(s, 1, Len(s) - 1))
             x == s[Len(s)]
             k == Cardinality({ i \in DOMAIN rest : rest[i].created_at <= x.created_at })
         IN SubSeq(rest, 1, k) \o << x >> \o SubSeq(rest, k + 1, Len(rest))

ZeroMonths == [ m \in Months |-> [opened |-> 0, closed |-> 0, total |-> 0] ]

\* mutant: an issue created before the year is not added to the running total
MonthlyStep_SkipsEarlier(acc, issue, year) ==
    LET cy == getFullYear(issue.created_at)
        cm == getMonth(issue.created_at)
        closedInYear == issue.closed_at # NullDate /\ getFullYear(issue.closed_at) = year
    IN IF cy <= year
       THEN LET s1 == IF cy = year THEN [acc.stats EXCEPT ![cm].opened = @ + 1]
                      ELSE acc.stats
                r1 == IF cy = year THEN acc.running + 1 ELSE acc.running
                s2 == IF closedInYear
                      THEN [s1 EXCEPT ![getMonth(issue.closed_at)].closed = @ + 1]
                      ELSE s1
                r2 == IF closedInYear THEN r1 - 1 ELSE r1
                s3 == IF cy = year
                      THEN [ m \in Months |-> IF m >= cm THEN [s2[m] EXCEPT !.total = r2]
                                              ELSE s2[m] ]
                      ELSE s2
            IN [stats |-> s3, running |-> r2]
       ELSE acc

\* the body of sortedIssues.forEach: one issue folded into the series and the
\* running total
MonthlyStep(acc, issue, year) ==
    LET cy == getFullYear(issue.created_at)
        cm == getMonth(issue.created_at)
        closedInYear == issue.closed_at # NullDate /\ getFullYear(issue.closed_at) = year
    IN IF cy <= year
       THEN LET s1 == IF cy = year THEN [acc.stats EXCEPT ![cm].opened = @ + 1]
                      ELSE acc.stats
                r1 == acc.running + 1
                s2 == IF closedInYear
                      THEN [s1 EXCEPT ![getMonth(issue.closed_at)].closed = @ + 1]
                      ELSE s1
                r2 == IF closedInYear THEN r1 - 1 ELSE r1
                s3 == IF cy = year
                      THEN [ m \in Months |-> IF m >= cm THEN [s2[m] EXCEPT !.total = r2]
                                              ELSE s2[m] ]
                      ELSE s2
            IN [stats |-> s3, running |-> r2]
       ELSE acc

RECURSIVE MonthlyFold(_, _, _)
MonthlyFold(acc, issues, year) ==
    IF issues = << >> THEN acc
    ELSE MonthlyFold(MonthlyStep(acc, Head(issues), year), Tail(issues), year)

calculateMonthlyIssueStats(issues, year) ==
    MonthlyFold([stats |-> ZeroMonths, running |-> 0],
                SortByCreated(SelectSeq(issues, LAMBDA i : ~i.pull_request)),
                year).stats

InRange(d, fromDate, toDate) == d >= fromDate /\ d <= toDate

\* the date test of a calculator: the year of the date is the given year, or
\* the date lies in the given range
YearWindow(year) == [ kind |-> "year", year |-> year ]

RangeWindow(fromDate, toDate) == [ kind |-> "range", fromDate |-> fromDate, toDate |-> toDate ]

InWindow(d, window) ==
    IF window.kind = "year" THEN getFullYear(d) = window.year
    ELSE InRange(d, window.fromDate, window.toDate)

\* contributor.weeks.filter(week in window).reduce(sum of week.c)
WeekCommits(contributor, window) ==
    SumSeq([ i \in DOMAIN contributor.weeks |->
               IF InWindow(contributor.weeks[i].w, window)
               THEN contributor.weeks[i].c ELSE 0 ])

RepoCommits(contributorStats, window) ==
    SumSeq([ i \in DOMAIN contributorStats |-> WeekCommits(contributorStats[i], window) ])

\* mutant: a repository's count of a type replaces the count gathered so far
RECURSIVE MergeTypes_Overwrites(_, _)
MergeTypes_Overwrites(types, entries) ==
    IF entries = << >> THEN types
    ELSE MergeTypes_Overwrites(ObjSet(types, Head(entries).key, Head(entries).value),
                               Tail(entries))

\* Object.entries(repo.pullRequests.types).forEach: types[type] = (types[type] || 0) + count
RECURSIVE MergeTypes(_, _)
MergeTypes(types, entries) ==
    IF entries = << >> THEN types
    ELSE MergeTypes(ObjSet(types, Head(entries).key,
                           ObjGet(types, Head(entries).key) + Head(entries).value),
                    Tail(entries))

RECURSIVE MergeAllTypes(_, _)
MergeAllTypes(types, repos) ==
    IF repos = << >> THEN types
    ELSE MergeAllTypes(MergeTypes(types, Head(repos).pullRequests.types), Tail(repos))

YearlyStatsOver(repos, window) ==
    [ repositories |->
        [ created |-> Len(SelectSeq(repos, LAMBDA r : InWindow(r.createdAt, window))),
          archived |-> Len(SelectSeq(repos, LAMBDA r :
                              r.archivedAt # NullDate /\ InWindow(r.archivedAt, window))) ],
      commits |-> SumSeq([ i \in DOMAIN repos |->
                             RepoCommits(repos[i].contributorStats, window) ]),
      issues |->
        [ opened |-> SumSeq([ i \in DOMAIN repos |-> repos[i].issues.opened ]),
          closed |-> SumSeq([ i \in DOMAIN repos |-> repos[i].issues.closed ]) ],
      pullRequests |->
        [ opened |-> SumSeq([ i \in DOMAIN repos |-> repos[i].pullRequests.opened ]),
          closed |-> SumSeq([ i \in DOMAIN repos |-> repos[i].pullRequests.closed ]),
          types |-> MergeAllTypes(<< >>, repos) ] ]

calculateYearlyStats(repos, currentYear) ==
    YearlyStatsOver(repos, YearWindow(currentYear))

\* The calculators getOrganization calls with the date range (their file is not
\* in the tree): the year tests of the calculators above, taken over the range.
calculateYearlyStatsInRange(repos, fromDate, toDate) ==
    YearlyStatsOver(repos, RangeWindow(fromDate, toDate))

RangeMonthlyStep(acc, issue, fromDate, toDate) ==
    LET cm == getMonth(issue.created_at)
        createdIn == InRange(issue.created_at, fromDate, toDate)
        closedIn == issue.closed_at # NullDate /\ InRange(issue.closed_at, fromDate, toDate)
    IN IF issue.created_at <= toDate
       THEN LET s1 == IF createdIn THEN [acc.stats EXCEPT ![cm].opened = @ + 1]
                      ELSE acc.stats
                r1 == acc.running + 1
                s2 == IF closedIn
                      THEN [s1 EXCEPT ![getMonth(issue.closed_at)].closed = @ + 1]
                      ELSE s1
                r2 == IF closedIn THEN r1 - 1 ELSE r1
                s3 == IF createdIn
                      THEN [ m \in Months |-> IF m >= cm THEN [s2[m] EXCEPT !.total = r2]
                                              ELSE s2[m] ]
                      ELSE s2
            IN [stats |-> s3, running |-> r2]
       ELSE acc

RECURSIVE RangeMonthlyFold(_, _, _, _)
RangeMonthlyFold(acc, issues, fromDate, toDate) ==
    IF issues = << >> THEN acc
    ELSE RangeMonthlyFold(RangeMonthlyStep(acc, Head(issues), fromDate, toDate),
                          Tail(issues), fromDate, toDate)

calculateMonthlyIssueStatsInRange(issues, fromDate, toDate, openCount) ==
    RangeMonthlyFold([stats |-> ZeroMonths, running |-> 0],
                     SortByCreated(SelectSeq(issues, LAMBDA i : ~i.pull_request)),
                     fromDate, toDate).stats


----------------------------------------------------------------------------
(* Cache store: one localStorage item under CACHE_KEY *)

CACHE_EXPIRATION == 24 * 60 * 60 * 1000

NoItem == [present |-> FALSE]

\* JSON text of the cache envelope: its three properties in order
JSONstringify(cache) == << cache.timestamp, cache.orgName, cache.data >>

JSONparse(text) == [timestamp |-> text[1], orgName |-> text[2], data |-> text[3]]

\* the item localStorage holds after saveToCache(orgName, data) at time t
saveToCache(orgName, data, t) ==
    [ present |-> TRUE,
      text |-> JSONstringify([timestamp |-> t, orgName |-> orgName, data |-> data]) ]

\* mutant: the stored key is not compared with the requested one
getFromCache_AnyKey(store, orgName, t) ==
    IF ~store.present THEN [store |-> store, hit |-> FALSE]
    ELSE LET cache == JSONparse(store.text)
         IN IF t - cache.timestamp > CACHE_EXPIRATION
            THEN [store |-> NoItem, hit |-> FALSE]
            ELSE [store |-> store, hit |-> TRUE, data |-> cache.data]

\* mutant: an entry exactly CACHE_EXPIRATION old counts as expired
getFromCache_ExpiresAtLimit(store, orgName, t) ==
    IF ~store.present THEN [store |-> store, hit |-> FALSE]
    ELSE LET cache == JSONparse(store.text)
         IN IF cache.orgName # orgName \/ t - cache.timestamp >= CACHE_EXPIRATION
            THEN [store |-> NoItem, hit |-> FALSE]
            ELSE [store |-> store, hit |-> TRUE, data |-> cache.data]

\* mutant: an entry stored for another key is left in place
getFromCache_KeepsOtherKey(store, orgName, t) ==
    IF ~store.present THEN [store |-> store, hit |-> FALSE]
    ELSE LET cache == JSONparse(store.text)
         IN IF cache.orgName # orgName THEN [store |-> store, hit |-> FALSE]
            ELSE IF t - cache.timestamp > CACHE_EXPIRATION
            THEN [store |-> NoItem, hit |-> FALSE]
            ELSE [store |-> store, hit |-> TRUE, data |-> cache.data]

\* getFromCache(orgName) at time t: the item left in localStorage and the answer
getFromCache(store, orgName, t) ==
    IF ~store.present THEN [store |-> store, hit |-> FALSE]
    ELSE LET cache == JSONparse(store.text)
         IN IF cache.orgName # orgName \/ t - cache.timestamp > CACHE_EXPIRATION
            THEN [store |-> NoItem, hit |-> FALSE]
            ELSE [store |-> store, hit |-> TRUE, data |-> cache.data]

\* `${orgName}-${dateRange.fromDate}-${dateRange.toDate}`
cacheKey(orgName, dateRange) == << orgName, dateRange.fromDate, dateRange.toDate >>

----------------------------------------------------------------------------
(* The remote service: what the listings and the per-repository fetches may *)
(* answer                                                                    *)

Orgs == { "acme", "globex" }

DateRanges == { [fromDate |-> 12, toDate |-> 23], [fromDate |-> 14, toDate |-> 20] }

RepoCatalog ==
    { [name |-> "api", fork |-> FALSE, stargazers_count |-> 5,
       created_at |-> 13, archived_at |-> NullDate],
      [name |-> "web", fork |-> FALSE, stargazers_count |-> 5,
       created_at |-> 3, archived_at |-> 14],
      [name |-> "mirror", fork |-> TRUE, stargazers_count |-> 9,
       created_at |-> 15, archived_at |-> NullDate] }

RepoListings ==
    { s \in UNION { [1 .. n -> RepoCatalog] : n \in 0 .. MaxRepos } :
        \A i, j \in DOMAIN s : i # j => s[i] # s[j] }

MemberListings ==
    { << >>, << [login |-> "alice"], [login |-> "bob"] >> }

Issue(created, closed, pr) ==
    [ created_at |-> created, closed_at |-> closed,
      state |-> IF closed = NullDate THEN "open" ELSE "closed", pull_request |-> pr ]

PullRequest(created, state, hasHead, ref) ==
    [ created_at |-> created, state |-> state, hasHead |-> hasHead, ref |-> ref ]

Contributor(login, weeks) == [ login |-> login, weeks |-> weeks ]

Week(w, c) == [ w |-> w, c |-> c ]

RepoDataMenu ==
    { [ contributorStats |-> << >>, issues |-> << >>, pullRequests |-> << >>,
        currentOpenIssues |-> 0 ],
      [ contributorStats |-> << Contributor("alice", << Week(13, 2), Week(30, 5) >>) >>,
        issues |-> << Issue(15, 18, FALSE), Issue(13, NullDate, FALSE),
                      Issue(14, 16, TRUE) >>,
        pullRequests |-> << PullRequest(14, "closed", TRUE,
                                        << "f", "e", "a", "t", "/", "l" >>) >>,
        currentOpenIssues |-> 1 ],
      [ contributorStats |-> << Contributor("alice", << Week(15, 1) >>),
                                Contributor("carol", << Week(16, 4) >>),
                                Contributor("", << Week(17, 7) >>) >>,
        issues |-> << Issue(22, 26, FALSE) >>,
        pullRequests |-> << PullRequest(15, "closed", TRUE, << "h", "o", "t" >>),
                            PullRequest(16, "closed", TRUE, << "B", "u", "g", "/", "1" >>),
                            PullRequest(4, "closed", TRUE, << "f", "i", "x", "/", "x" >>),
                            PullRequest(17, "open", TRUE, << "f", "e", "a", "t", "/", "y" >>) >>,
        currentOpenIssues |-> 0 ],
      [ contributorStats |-> << Contributor("bob", << Week(12, 3), Week(23, 1),
                                                      Week(24, 9) >>) >>,
        issues |-> << Issue(16, 16, FALSE), Issue(5, NullDate, FALSE),
                      Issue(5, 16, FALSE) >>,
        pullRequests |-> << PullRequest(18, "closed", FALSE, << >>),
                            PullRequest(19, "closed", TRUE, << "7", "/", "x" >>) >>,
        currentOpenIssues |-> 2 ] }

\* a per-repository fetch rejects, or all four resolve with data
RepoOutcomes ==
    { [failed |-> TRUE] } \cup
    { [failed |-> FALSE, data |-> d] : d \in RepoDataMenu }

ClockSteps == { 1, CACHE_EXPIRATION }


----------------------------------------------------------------------------
(* getOrganization *)

Pending == [status |-> "pending"]

\* the catch branch: the repository's entry is null
Failed == [status |-> "null"]

NoResult == [kind |-> "none"]

Unsettled == [failed |-> FALSE, settled |-> FALSE]

NoLookup == [made |-> FALSE]

NoSave == [present |-> FALSE]

ZeroCalls == [ members |-> 0, repos |-> 0, contributorStats |-> 0, issues |-> 0,
               pullRequests |-> 0, openIssues |-> 0 ]

\* mutant: the listing is taken as it is
NonForks_KeepsAll(allRepos) == allRepos

\* allRepos.filter((repo) => !repo.fork)
NonForks(allRepos) == SelectSeq(allRepos, LAMBDA repo : ~repo.fork)

\* issues.filter(not a pull request).filter(created within the range)
FilteredIssues(issues, fromDate, toDate) ==
    SelectSeq(SelectSeq(issues, LAMBDA item : ~item.pull_request),
              LAMBDA item : item.created_at >= fromDate /\ item.created_at <= toDate)

\* pullRequests.filter(created within the range)
FilteredPRs(pullRequests, fromDate, toDate) ==
    SelectSeq(pullRequests,
              LAMBDA item : item.created_at >= fromDate /\ item.created_at <= toDate)

\* mutant: every item is counted as closed
ClosedOf_All(items) == items

\* items.filter((item) => item.state === "closed"): the items counted as closed
ClosedOf(items) == SelectSeq(items, LAMBDA item : item.state = "closed")

\* the try branch after the four fetches resolved: filter by the range, fold
RepoStatsOf(repo, data, fromDate, toDate) ==
    LET filteredIssues == FilteredIssues(data.issues, fromDate, toDate)
        filteredPRs == FilteredPRs(data.pullRequests, fromDate, toDate)
    IN [ status |-> "ok",
         name |-> repo.name,
         stars |-> repo.stargazers_count,
         contributorStats |-> data.contributorStats,
         issues |->
           [ opened |-> Len(filteredIssues),
             closed |-> Len(ClosedOf(filteredIssues)),
             monthlyStats |-> calculateMonthlyIssueStatsInRange(
                                  filteredIssues, fromDate, toDate, data.currentOpenIssues) ],
         pullRequests |->
           [ opened |-> Len(filteredPRs),
             closed |-> Len(ClosedOf(filteredPRs)),
             types |-> categorizePRTypes(filteredPRs) ],
         createdAt |-> repo.created_at,
         archivedAt |-> repo.archived_at ]

\* what the async callback of ownRepos.map returns for one repository
SettleRepo(repo, outcome, fromDate, toDate) ==
    IF outcome.failed THEN Failed
    ELSE RepoStatsOf(repo, outcome.data, fromDate, toDate)

\* results.filter(Boolean)
FilterBoolean(results) == SelectSeq(results, LAMBDA r : r.status # "null")

\* mutant: every week of a contributor is counted, whatever the range
MemberStatsOf_AllWeeks(stats, login, fromDate, toDate) ==
    SumSeq([ i \in DOMAIN stats |->
        SumSeq([ j \in DOMAIN stats[i].contributorStats |->
            IF stats[i].contributorStats[j].login = login
            THEN SumSeq([ k \in DOMAIN stats[i].contributorStats[j].weeks |->
                            stats[i].contributorStats[j].weeks[k].c ])
            ELSE 0 ]) ])

\* memberStats[login] after the forEach over repoStats
MemberStatsOf(stats, login, fromDate, toDate) ==
    SumSeq([ i \in DOMAIN stats |->
        SumSeq([ j \in DOMAIN stats[i].contributorStats |->
            IF stats[i].contributorStats[j].login # ""
               /\ stats[i].contributorStats[j].login = login
            THEN WeekCommits(stats[i].contributorStats[j],
                             RangeWindow(fromDate, toDate))
            ELSE 0 ]) ])

EnhancedMembers(memberList, stats, fromDate, toDate) ==
    [ i \in DOMAIN memberList |->
        [ login |-> memberList[i].login,
          contributions |-> MemberStatsOf(stats, memberList[i].login, fromDate, toDate) ] ]

\* mutant: commitCount adds up every week of the contributors, whatever the range
RepoProjection_AllWeeks(r, fromDate, toDate) ==
    [ name |-> r.name,
      stars |-> r.stars,
      contributors |-> Len(r.contributorStats),
      closedIssues |-> r.issues.closed,
      commitCount |-> SumSeq([ j \in DOMAIN r.contributorStats |->
                                 SumSeq([ k \in DOMAIN r.contributorStats[j].weeks |->
                                            r.contributorStats[j].weeks[k].c ]) ]) ]

RepoProjection(r, fromDate, toDate) ==
    [ name |-> r.name,
      stars |-> r.stars,
      contributors |-> Len(r.contributorStats),
      closedIssues |-> r.issues.closed,
      commitCount |-> RepoCommits(r.contributorStats, RangeWindow(fromDate, toDate)) ]

\* mutant: a repository's series replaces the accumulated one
MonthlyMerge_Replaces(acc, stats) ==
    IF stats = << >> THEN acc ELSE stats[Len(stats)].issues.monthlyStats

\* mutant: opened and closed are summed, the total of the last repository wins
MonthlyMerge_LastTotalWins(acc, stats) ==
    [ m \in Months |->
        [ opened |-> acc[m].opened
                       + SumSeq([ i \in DOMAIN stats |-> stats[i].issues.monthlyStats[m].opened ]),
          closed |-> acc[m].closed
                       + SumSeq([ i \in DOMAIN stats |-> stats[i].issues.monthlyStats[m].closed ]),
          total |-> IF stats = << >> THEN acc[m].total
                    ELSE stats[Len(stats)].issues.monthlyStats[m].total ] ]

\* the reduce over repoStats that merges the monthly series
RECURSIVE MonthlyMerge(_, _)
MonthlyMerge(acc, stats) ==
    IF stats = << >> THEN acc
    ELSE MonthlyMerge(
            [ m \in Months |->
                [ opened |-> acc[m].opened + Head(stats).issues.monthlyStats[m].opened,
                  closed |-> acc[m].closed + Head(stats).issues.monthlyStats[m].closed,
                  total |-> acc[m].total + Head(stats).issues.monthlyStats[m].total ] ],
            Tail(stats))

AssembleReport(memberList, results, fromDate, toDate) ==
    LET stats == FilterBoolean(results)
    IN [ repos |-> [ i \in DOMAIN stats |-> RepoProjection(stats[i], fromDate, toDate) ],
         members |-> EnhancedMembers(memberList, stats, fromDate, toDate),
         yearlyStats |-> calculateYearlyStatsInRange(stats, fromDate, toDate),
         monthlyIssueStats |-> MonthlyMerge(ZeroMonths, stats) ]

AllSettled(results) == \A i \in DOMAIN results : results[i].status # "pending"

\* the tail of getOrganization once every repository has settled: assemble the
\* report, save it, return it
Finish(memberList, results) ==
    LET report == AssembleReport(memberList, results,
                                 req.dateRange.fromDate, req.dateRange.toDate)
        key == cacheKey(req.orgName, req.dateRange)
    IN /\ localStorage' = saveToCache(key, report, now)
       /\ lastSaved' = [present |-> TRUE, key |-> key, at |-> now, report |-> report]
       /\ cacheOps' = Append(cacheOps,
                             [ op |-> "save", key |-> key, at |-> now,
                               pending |-> Cardinality({ i \in DOMAIN results :
                                                           results[i] = Pending }) ])
       /\ result' = [kind |-> "report", report |-> report]
       /\ pc' = "done"

\* which case a lookup of key falls in now, from the record of the last save
LookupCase(key) ==
    IF ~lastSaved.present THEN "absent"
    ELSE IF lastSaved.key # key THEN "other key"
    ELSE IF now - lastSaved.at > 24 * 60 * 60 * 1000 THEN "expired"
    ELSE "fresh"

\* getOrganization(orgName, dateRange, onProgress) up to its first await
Start(orgName, dateRange) ==
    /\ pc \in { "idle", "done", "failed" }
    /\ LET key == cacheKey(orgName, dateRange)
           got == getFromCache(localStorage, key, now)
       IN /\ req' = [orgName |-> orgName, dateRange |-> dateRange]
          /\ localStorage' = got.store
          /\ lastGet' = [made |-> TRUE, key |-> key, at |-> now, after |-> got.store,
                         hit |-> got.hit, case |-> LookupCase(key)]
          /\ lastSaved' = IF got.store.present THEN lastSaved ELSE NoSave
          /\ cacheOps' = << [ op |-> "get", key |-> key, at |-> now, hit |-> got.hit,
                              requests |-> 0 ] >>
          /\ listedForks' = << >>
          /\ members' = << >>
          /\ ownRepos' = << >>
          /\ repoStats' = << >>
          /\ fetched' = << >>
          /\ processed' = 0
          /\ progressLog' = << >>
          /\ IF got.hit
             THEN /\ result' = [kind |-> "report", report |-> got.data]
                  /\ calls' = ZeroCalls
                  /\ pc' = "done"
             ELSE /\ result' = NoResult
                  /\ calls' = [ZeroCalls EXCEPT !.members = 1, !.repos = 1]
                  /\ pc' = "listing"
    /\ UNCHANGED << now, ticks, statsCall, calc, organization, view, dashboard, paging, batching >>

\* both listings resolved: the fan-out over the own repositories starts
ListingDone(memberList, allRepos) ==
    /\ pc = "listing"
    /\ LET own == NonForks(allRepos)
           results == [ i \in DOMAIN own |-> Pending ]
       IN /\ members' = memberList
          /\ listedForks' = SelectSeq(allRepos, LAMBDA repo : repo.fork)
          /\ ownRepos' = own
          /\ repoStats' = results
          /\ fetched' = [ i \in DOMAIN own |-> Unsettled ]
          /\ calls' = [calls EXCEPT !.contributorStats = @ + Len(own),
                                    !.issues = @ + Len(own),
                                    !.pullRequests = @ + Len(own),
                                    !.openIssues = @ + Len(own)]
          /\ IF own = << >>
             THEN Finish(memberList, results)
             ELSE /\ pc' = "fetching"
                  /\ UNCHANGED << localStorage, lastSaved, result, cacheOps >>
    /\ UNCHANGED << now, ticks, req, processed, progressLog, lastGet,
                    statsCall, calc, organization, view, dashboard, paging, batching >>

\* mutant: the failing call leaves an empty report in the cache before it fails
ListingFail_SavesPartial(which) ==
    /\ pc = "listing"
    /\ pc' = "failed"
    /\ result' = [kind |-> "error", error |-> which]
    /\ localStorage' = saveToCache(cacheKey(req.orgName, req.dateRange),
                                   AssembleReport(<< >>, << >>, req.dateRange.fromDate,
                                                  req.dateRange.toDate), now)
    /\ UNCHANGED << now, ticks, req, members, ownRepos, repoStats, fetched,
                    processed, progressLog, calls, lastGet, lastSaved, listedForks, cacheOps,
                    statsCall, calc, organization, view, dashboard, paging, batching >>

\* the member listing or the repository listing rejected
ListingFail(which) ==
    /\ pc = "listing"
    /\ pc' = "failed"
    /\ result' = [kind |-> "error", error |-> which]
    /\ UNCHANGED << localStorage, now, ticks, req, members, ownRepos, repoStats, fetched,
                    processed, progressLog, calls, lastGet, lastSaved, listedForks, cacheOps,
                    statsCall, calc, organization, view, dashboard, paging, batching >>

\* mutant: the catch branch does not count the repository as processed
RepoSettle_SilentFailure(i, outcome) ==
    /\ pc = "fetching"
    /\ i \in DOMAIN repoStats
    /\ repoStats[i] = Pending
    /\ LET results == [repoStats EXCEPT ![i] =
                          SettleRepo(ownRepos[i], outcome, req.dateRange.fromDate,
                                     req.dateRange.toDate)]
       IN /\ repoStats' = results
          /\ fetched' = [fetched EXCEPT ![i] = outcome]
          /\ processed' = IF outcome.failed THEN processed ELSE processed + 1
          /\ progressLog' = IF outcome.failed THEN progressLog
                            ELSE Append(progressLog, << processed + 1, Len(ownRepos) >>)
          /\ IF AllSettled(results)
             THEN Finish(members, results)
             ELSE UNCHANGED << localStorage, lastSaved, result, pc, cacheOps >>
    /\ UNCHANGED << now, ticks, req, members, ownRepos, calls, lastGet, listedForks,
                    statsCall, calc, organization, view, dashboard, paging, batching >>

\* mutant: no catch branch, a rejected fetch rejects the whole call
RepoSettle_Rethrows(i, outcome) ==
    /\ pc = "fetching"
    /\ i \in DOMAIN repoStats
    /\ repoStats[i] = Pending
    /\ LET results == [repoStats EXCEPT ![i] =
                          SettleRepo(ownRepos[i], outcome, req.dateRange.fromDate,
                                     req.dateRange.toDate)]
       IN /\ repoStats' = results
          /\ fetched' = [fetched EXCEPT ![i] = outcome]
          /\ IF outcome.failed
             THEN /\ pc' = "failed"
                  /\ result' = [kind |-> "error", error |-> ownRepos[i].name]
                  /\ UNCHANGED << localStorage, lastSaved, processed, progressLog, cacheOps >>
             ELSE /\ processed' = processed + 1
                  /\ progressLog' = Append(progressLog, << processed + 1, Len(ownRepos) >>)
                  /\ IF AllSettled(results)
                     THEN Finish(members, results)
                     ELSE UNCHANGED << localStorage, lastSaved, result, pc, cacheOps >>
    /\ UNCHANGED << now, ticks, req, members, ownRepos, calls, lastGet, listedForks,
                    statsCall, calc, organization, view, dashboard, paging, batching >>

\* mutant: the report assembled so far is saved each time a repository settles
RepoSettle_SavesEach(i, outcome) ==
    /\ pc = "fetching"
    /\ i \in DOMAIN repoStats
    /\ repoStats[i] = Pending
    /\ LET results == [repoStats EXCEPT ![i] =
                          SettleRepo(ownRepos[i], outcome, req.dateRange.fromDate,
                                     req.dateRange.toDate)]
           settled == SelectSeq(results, LAMBDA r : r.status # "pending")
       IN /\ repoStats' = results
          /\ fetched' = [fetched EXCEPT ![i] = outcome]
          /\ processed' = processed + 1
          /\ progressLog' = Append(progressLog, << processed + 1, Len(ownRepos) >>)
          /\ IF AllSettled(results)
             THEN Finish(members, results)
             ELSE LET report == AssembleReport(members, settled, req.dateRange.fromDate,
                                               req.dateRange.toDate)
                      key == cacheKey(req.orgName, req.dateRange)
                  IN /\ localStorage' = saveToCache(key, report, now)
                     /\ lastSaved' = [present |-> TRUE, key |-> key, at |-> now,
                                      report |-> report]
                     /\ cacheOps' = Append(cacheOps,
                                           [ op |-> "save", key |-> key, at |-> now,
                                             pending |-> Len(results) - Len(settled) ])
                     /\ UNCHANGED << result, pc >>
    /\ UNCHANGED << now, ticks, req, members, ownRepos, calls, lastGet, listedForks,
                    statsCall, calc, organization, view, dashboard, paging, batching >>

\* mutant: the results are gathered in the order the repositories settle
RepoSettle_CompletionOrder(i, outcome) ==
    /\ pc = "fetching"
    /\ i \in DOMAIN repoStats
    /\ fetched[i] = Unsettled
    /\ LET results == [repoStats EXCEPT ![processed + 1] =
                          SettleRepo(ownRepos[i], outcome, req.dateRange.fromDate,
                                     req.dateRange.toDate)]
       IN /\ repoStats' = results
          /\ fetched' = [fetched EXCEPT ![i] = outcome]
          /\ processed' = processed + 1
          /\ progressLog' = Append(progressLog, << processed + 1, Len(ownRepos) >>)
          /\ IF AllSettled(results)
             THEN Finish(members, results)
             ELSE UNCHANGED << localStorage, lastSaved, result, pc, cacheOps >>
    /\ UNCHANGED << now, ticks, req, members, ownRepos, calls, lastGet, listedForks,
                    statsCall, calc, organization, view, dashboard, paging, batching >>

\* the fetches of own repository i settled: its callback runs to its return
RepoSettle(i, outcome) ==
    /\ pc = "fetching"
    /\ i \in DOMAIN repoStats
    /\ repoStats[i] = Pending
    /\ LET results == [repoStats EXCEPT ![i] =
                          SettleRepo(ownRepos[i], outcome, req.dateRange.fromDate,
                                     req.dateRange.toDate)]
       IN /\ repoStats' = results
          /\ fetched' = [fetched EXCEPT ![i] = outcome]
          /\ processed' = processed + 1
          /\ progressLog' = Append(progressLog, << processed + 1, Len(ownRepos) >>)
          /\ IF AllSettled(results)
             THEN Finish(members, results)
             ELSE UNCHANGED << localStorage, lastSaved, result, pc, cacheOps >>
    /\ UNCHANGED << now, ticks, req, members, ownRepos, calls, lastGet, listedForks,
                    statsCall, calc, organization, view, dashboard, paging, batching >>

\* time passes
Tick(dt) ==
    /\ ticks < MaxTicks
    /\ ticks' = ticks + 1
    /\ now' = now + dt
    /\ UNCHANGED << localStorage, pc, req, members, ownRepos, repoStats, fetched,
                    processed, progressLog, calls, result, lastGet, lastSaved, listedForks, cacheOps,
                    statsCall, calc, organization, view, dashboard, paging, batching >>

IdleCalc == [phase |-> "idle"]

IdleStatsCall == [phase |-> "idle"]

NoOrganization == [made |-> FALSE]

NoView == [query |-> "none"]

NoDashboard == [mounted |-> FALSE]

IdlePaging == [phase |-> "idle"]

IdleBatching == [phase |-> "idle"]

Init ==
    /\ localStorage = NoItem
    /\ now = 0
    /\ ticks = 0
    /\ pc = "idle"
    /\ req = [orgName |-> "acme", dateRange |-> [fromDate |-> 12, toDate |-> 23]]
    /\ members = << >>
    /\ ownRepos = << >>
    /\ repoStats = << >>
    /\ fetched = << >>
    /\ processed = 0
    /\ progressLog = << >>
    /\ calls = ZeroCalls
    /\ result = NoResult
    /\ lastGet = NoLookup
    /\ lastSaved = NoSave
    /\ statsCall = IdleStatsCall
    /\ calc = IdleCalc
    /\ organization = NoOrganization
    /\ view = NoView
    /\ listedForks = << >>
    /\ cacheOps = << >>
    /\ dashboard = NoDashboard
    /\ paging = IdlePaging
    /\ batching = IdleBatching

Next ==
    \/ \E orgName \in Orgs, dateRange \in DateRanges : Start(orgName, dateRange)
    \/ \E memberList \in MemberListings, allRepos \in RepoListings :
          ListingDone(memberList, allRepos)
    \/ \E which \in { "members", "repos" } : ListingFail(which)
    \/ \E i \in 1 .. Len(repoStats), outcome \in RepoOutcomes : RepoSettle(i, outcome)
    \/ \E dt \in ClockSteps : Tick(dt)

Spec == Init /\ [][Next]_vars


----------------------------------------------------------------------------
(* getContributorStats: the polling loop for the pending status *)

\* the body of a 202 answer is an empty object, not an array
NotArray == << [notAnArray |-> TRUE] >>

StatsBodies ==
    { << >>,
      << Contributor("alice", << Week(13, 2), Week(30, 5) >>) >>,
      << Contributor("alice", << Week(15, 1) >>), Contributor("carol", << Week(16, 4) >>) >>,
      << Contributor("bob", << Week(12, 3) >>) >> }

StatsResponses ==
    { [threw |-> TRUE, status |-> 0, data |-> NotArray],
      [threw |-> FALSE, status |-> 202, data |-> NotArray],
      [threw |-> FALSE, status |-> 200, data |-> NotArray] } \cup
    { [threw |-> FALSE, status |-> 200, data |-> d] : d \in StatsBodies }

\* getContributorStatsWithRetry(owner, repo): retries = 3, the first request
StatsStart(owner, repo) ==
    /\ statsCall.phase = "idle"
    /\ statsCall' = [ phase |-> "requesting", owner |-> owner, repo |-> repo,
                      retries |-> 3, attempts |-> 1, delays |-> << >>,
                      statuses |-> << >>, value |-> << >> ]
    /\ UNCHANGED << orgVars, calc, organization, view, dashboard, paging, batching >>

\* mutant: the body is returned unchecked
ArrayOrEmpty_Unchecked(data) == data

\* Array.isArray(response.data) ? response.data : []
ArrayOrEmpty(data) == IF data = NotArray THEN << >> ELSE data

\* mutant: a pending answer is retried whatever retries is left
StatsRespond_RetriesAtZero(response) ==
    /\ statsCall.phase = "requesting"
    /\ IF response.threw
       THEN statsCall' = [statsCall EXCEPT !.phase = "returned", !.value = << >>,
                                           !.statuses = Append(@, 0)]
       ELSE IF response.status = 202 /\ statsCall.retries >= 0
            THEN statsCall' = [statsCall EXCEPT !.phase = "waiting",
                                                !.statuses = Append(@, response.status)]
            ELSE statsCall' = [statsCall EXCEPT !.phase = "returned",
                                                !.value = ArrayOrEmpty(response.data),
                                                !.statuses = Append(@, response.status)]
    /\ UNCHANGED << orgVars, calc, organization, view, dashboard, paging, batching >>

\* the request settled: return, or wait one second before the retry
StatsRespond(response) ==
    /\ statsCall.phase = "requesting"
    /\ IF response.threw
       THEN statsCall' = [statsCall EXCEPT !.phase = "returned", !.value = << >>,
                                           !.statuses = Append(@, 0)]
       ELSE IF response.status = 202 /\ statsCall.retries > 0
            THEN statsCall' = [statsCall EXCEPT !.phase = "waiting",
                                                !.statuses = Append(@, response.status)]
            ELSE statsCall' = [statsCall EXCEPT !.phase = "returned",
                                                !.value = ArrayOrEmpty(response.data),
                                                !.statuses = Append(@, response.status)]
    /\ UNCHANGED << orgVars, calc, organization, view, dashboard, paging, batching >>

\* the 1000 ms timer fired: the recursive call issues the next request
StatsRetry ==
    /\ statsCall.phase = "waiting"
    /\ statsCall' = [statsCall EXCEPT !.phase = "requesting",
                                      !.retries = @ - 1,
                                      !.attempts = @ + 1,
                                      !.delays = Append(@, 1000)]
    /\ UNCHANGED << orgVars, calc, organization, view, dashboard, paging, batching >>

RepoNames == { r.name : r \in RepoCatalog }

NextStats ==
    \/ \E owner \in Orgs, repo \in RepoNames : StatsStart(owner, repo)
    \/ \E response \in StatsResponses : StatsRespond(response)
    \/ StatsRetry

SpecStats == Init /\ [][NextStats]_vars

----------------------------------------------------------------------------
(* One evaluation of calculateMonthlyIssueStats over an issue list *)

CalcYears == { 1, 2 }

IssuePool ==
    { Issue(14, NullDate, FALSE), Issue(14, 17, FALSE), Issue(16, 16, FALSE),
      Issue(20, 26, FALSE), Issue(5, NullDate, FALSE), Issue(5, 15, FALSE),
      Issue(4, 9, FALSE), Issue(25, NullDate, FALSE), Issue(15, 18, TRUE) }

\* the caller's issue list grows by one issue
CalcAddIssue(issue) ==
    /\ calc.phase \in { "idle", "input" }
    /\ Len(IF calc.phase = "idle" THEN << >> ELSE calc.issues) < MaxIssues
    /\ calc' = [ phase |-> "input",
                 issues |-> Append(IF calc.phase = "idle" THEN << >> ELSE calc.issues,
                                   issue) ]
    /\ UNCHANGED << orgVars, statsCall, organization, view, dashboard, paging, batching >>

\* StatsCalculator.calculateMonthlyIssueStats(issues, year) is evaluated
CalcMonthly(year) ==
    /\ calc.phase \in { "idle", "input" }
    /\ LET issues == IF calc.phase = "idle" THEN << >> ELSE calc.issues
       IN calc' = [ phase |-> "monthly", issues |-> issues, year |-> year,
                    monthlyStats |-> calculateMonthlyIssueStats(issues, year) ]
    /\ UNCHANGED << orgVars, statsCall, organization, view, dashboard, paging, batching >>

\* pull requests a caller may hand to categorizePRTypes
PRPool ==
    { PullRequest(14, "closed", TRUE, << "f", "e", "a", "t", "/", "l" >>),
      PullRequest(15, "closed", TRUE, << "h", "o", "t", "f", "i", "x" >>),
      PullRequest(16, "closed", FALSE, << >>),
      PullRequest(16, "closed", TRUE, << "B", "u", "g", "/", "1" >>),
      PullRequest(17, "open", TRUE, << "f", "e", "a", "t", "/", "y" >>),
      PullRequest(18, "closed", TRUE, << "7", "/", "x" >>),
      PullRequest(19, "closed", TRUE, << "/", "x" >>),
      PullRequest(20, "closed", TRUE, << >>),
      PullRequest(21, "closed", TRUE, << "F", "e", "a", "t", "/", "b", "/", "c" >>) }

\* the caller's pull-request list grows by one pull request
CalcAddPR(pr) ==
    /\ calc.phase \in { "idle", "prs" }
    /\ Len(IF calc.phase = "idle" THEN << >> ELSE calc.prs) < MaxPRs
    /\ calc' = [ phase |-> "prs",
                 prs |-> Append(IF calc.phase = "idle" THEN << >> ELSE calc.prs, pr) ]
    /\ UNCHANGED << orgVars, statsCall, organization, view, dashboard, paging, batching >>

\* StatsCalculator.categorizePRTypes(prs) is evaluated
CalcCategorize ==
    /\ calc.phase \in { "idle", "prs" }
    /\ LET prs == IF calc.phase = "idle" THEN << >> ELSE calc.prs
       IN calc' = [ phase |-> "categorized", prs |-> prs,
                    types |-> categorizePRTypes(prs) ]
    /\ UNCHANGED << orgVars, statsCall, organization, view, dashboard, paging, batching >>

\* per-repository statistics carrying a monthly series: the series of the
\* issue lists of the fetch menu
SeriesPool ==
    { [ issues |-> [ monthlyStats |-> calculateMonthlyIssueStats(d.issues, 1) ] ] :
        d \in RepoDataMenu }

\* the list of per-repository statistics grows by one repository
CalcAddSeries(repo) ==
    /\ calc.phase \in { "idle", "series" }
    /\ Len(IF calc.phase = "idle" THEN << >> ELSE calc.stats) < MaxSeries
    /\ calc' = [ phase |-> "series",
                 stats |-> Append(IF calc.phase = "idle" THEN << >> ELSE calc.stats, repo) ]
    /\ UNCHANGED << orgVars, statsCall, organization, view, dashboard, paging, batching >>

\* the monthly series of the repositories are folded into one
CalcMerge ==
    /\ calc.phase \in { "idle", "series" }
    /\ LET stats == IF calc.phase = "idle" THEN << >> ELSE calc.stats
       IN calc' = [ phase |-> "merged", stats |-> stats,
                    monthlyIssueStats |-> MonthlyMerge(ZeroMonths, stats) ]
    /\ UNCHANGED << orgVars, statsCall, organization, view, dashboard, paging, batching >>

NextCalc ==
    \/ \E issue \in IssuePool : CalcAddIssue(issue)
    \/ \E year \in CalcYears : CalcMonthly(year)
    \/ \E pr \in PRPool : CalcAddPR(pr)
    \/ CalcCategorize
    \/ \E repo \in SeriesPool : CalcAddSeries(repo)
    \/ CalcMerge

SpecCalc == Init /\ [][NextCalc]_vars

----------------------------------------------------------------------------
(* Organization: the view model the dashboard wraps around a report *)

\* array.sort((a, b) => b.score - a.score), a stable sort: an element goes
\* after every element that scores at least as much and came before it
RECURSIVE SortDescending(_)
SortDescending(pairs) ==
    IF pairs = << >> THEN << >>
    ELSE LET rest == SortDescending(SubSeq(pairs, 1, Len(pairs) - 1))
             x == pairs[Len(pairs)]
             k == Cardinality({ i \in DOMAIN rest : rest[i].score >= x.score })
         IN SubSeq(rest, 1, k) \o << x >> \o SubSeq(rest, k + 1, Len(rest))

\* array.slice(0, limit)
slice(array, limit) == SubSeq(array, 1, IF limit < Len(array) THEN limit ELSE Len(array))

\* !repo.fork is false only for an entry that carries a true fork property
IsFork(repo) == "fork" \in DOMAIN repo /\ repo.fork

\* Array.isArray(repo.contributors): the contributors of a report's repository
\* entry is a number (contributorStats?.length || 0), never an array
isArray(contributors) == FALSE

\* a Map: its entries in insertion order
MapHas(map, key) == \E i \in DOMAIN map : map[i].key = key

MapGet(map, key) == map[CHOOSE i \in DOMAIN map : map[i].key = key].value

MapSet(map, key, value) ==
    IF MapHas(map, key)
    THEN [ i \in DOMAIN map |-> IF map[i].key = key THEN [key |-> key, value |-> value]
                                ELSE map[i] ]
    ELSE Append(map, [key |-> key, value |-> value])

\* new Organization(name, repos, members, yearlyStats)
newOrganization(name, repos, memberList, yearlyStats) ==
    [ made |-> TRUE, name |-> name, repos |-> repos, members |-> memberList,
      yearlyStats |-> yearlyStats ]

\* Each query gives the value it returns and the Organization as it leaves it.

getTotalStars(this) ==
    [ this |-> this,
      value |-> SumSeq([ i \in DOMAIN this.repos |-> this.repos[i].stars ]) ]

\* mutant: repositories with equal stars come out in reverse order
getMostPopularRepos_TiesReversed(this, limit) ==
    LET reversed == [ i \in DOMAIN this.repos |-> this.repos[Len(this.repos) + 1 - i] ]
        sorted == SortDescending([ i \in DOMAIN reversed |->
                                     [score |-> reversed[i].stars, item |-> reversed[i]] ])
        top == slice(sorted, limit)
    IN [ this |-> this,
         value |-> [ i \in DOMAIN top |->
                       [name |-> top[i].item.name, stars |-> top[i].item.stars] ] ]

\* mutant: this.repos itself is sorted, not a copy of it
getMostPopularRepos_SortsInPlace(this, limit) ==
    LET sorted == SortDescending([ i \in DOMAIN this.repos |->
                                     [score |-> this.repos[i].stars, item |-> this.repos[i]] ])
        top == slice(sorted, limit)
    IN [ this |-> [this EXCEPT !.repos = [ i \in DOMAIN sorted |-> sorted[i].item ]],
         value |-> [ i \in DOMAIN top |->
                       [name |-> top[i].item.name, stars |-> top[i].item.stars] ] ]

getMostPopularRepos(this, limit) ==
    LET sorted == SortDescending([ i \in DOMAIN this.repos |->
                                     [score |-> this.repos[i].stars, item |-> this.repos[i]] ])
        top == slice(sorted, limit)
    IN [ this |-> this,
         value |-> [ i \in DOMAIN top |->
                       [name |-> top[i].item.name, stars |-> top[i].item.stars] ] ]

\* commitCount || 0
CommitCountOrZero(repo) == IF "commitCount" \in DOMAIN repo THEN repo.commitCount ELSE 0

getMostActiveRepos(this, limit) ==
    LET eligible == SelectSeq(this.repos, LAMBDA repo : ~IsFork(repo))
        sorted == SortDescending([ i \in DOMAIN eligible |->
                                     [score |-> CommitCountOrZero(eligible[i]),
                                      item |-> eligible[i]] ])
        top == slice(sorted, limit)
    IN [ this |-> this,
         value |-> [ i \in DOMAIN top |->
                       [name |-> top[i].item.name,
                        commitCount |-> CommitCountOrZero(top[i].item)] ] ]

\* this.members.forEach: memberStats.set(member.login, 0)
RECURSIVE ZeroMemberStats(_, _)
ZeroMemberStats(memberStats, memberList) ==
    IF memberList = << >> THEN memberStats
    ELSE ZeroMemberStats(MapSet(memberStats, Head(memberList).login, 0), Tail(memberList))

\* repo.contributors.forEach: the contributions of contributors that are members
RECURSIVE AddContributors(_, _)
AddContributors(memberStats, contributors) ==
    IF contributors = << >> THEN memberStats
    ELSE AddContributors(
            IF MapHas(memberStats, Head(contributors).login)
            THEN MapSet(memberStats, Head(contributors).login,
                        MapGet(memberStats, Head(contributors).login)
                          + Head(contributors).contributions)
            ELSE memberStats,
            Tail(contributors))

\* this.repos.forEach: only an array of contributors is walked
RECURSIVE AddRepos(_, _)
AddRepos(memberStats, repos) ==
    IF repos = << >> THEN memberStats
    ELSE AddRepos(IF isArray(Head(repos).contributors)
                  THEN AddContributors(memberStats, Head(repos).contributors)
                  ELSE memberStats,
                  Tail(repos))

getMostActiveMembers(this, limit) ==
    LET memberStats == AddRepos(ZeroMemberStats(<< >>, this.members), this.repos)
        sorted == SortDescending([ i \in DOMAIN memberStats |->
                                     [score |-> memberStats[i].value,
                                      item |-> memberStats[i]] ])
        top == slice(sorted, limit)
    IN [ this |-> this,
         value |-> [ i \in DOMAIN top |->
                       [login |-> top[i].item.key, contributions |-> top[i].item.value] ] ]

\* Object.entries(types).sort(by count, descending).forEach: typeStats[type] = count
RECURSIVE SetAll(_, _)
SetAll(typeStats, entries) ==
    IF entries = << >> THEN typeStats
    ELSE SetAll(ObjSet(typeStats, Head(entries).item.key, Head(entries).item.value),
                Tail(entries))

getPullRequestTypeStats(this) ==
    LET types == this.yearlyStats.pullRequests.types
        sorted == SortDescending([ i \in DOMAIN types |->
                                     [score |-> types[i].value, item |-> types[i]] ])
    IN [ this |-> this, value |-> SetAll(<< >>, sorted) ]

getYearlyStats(this) == [ this |-> this, value |-> this.yearlyStats ]

\* the limits a caller passes; 5 is the default
Limits == { 1, 2, 5 }

\* the repositories the listing of the organization behind a report may hold
ViewRepoCatalog ==
    { repo \in RepoCatalog : ~repo.fork } \cup
    { [name |-> "cli", fork |-> FALSE, stargazers_count |-> 7,
       created_at |-> 16, archived_at |-> NullDate] }

ViewRepoListings ==
    { s \in UNION { [1 .. n -> ViewRepoCatalog] : n \in 0 .. Cardinality(ViewRepoCatalog) } :
        \A i, j \in DOMAIN s : i # j => s[i] # s[j] }

\* the reports getOrganization assembles: for every listing of members and
\* repositories, every outcome of the repositories' fetches, every range
ViewReports ==
    UNION { UNION { { AssembleReport(memberList,
                                     [ i \in DOMAIN own |->
                                         SettleRepo(own[i], outcomes[i],
                                                    dateRange.fromDate, dateRange.toDate) ],
                                     dateRange.fromDate, dateRange.toDate) :
                        outcomes \in [DOMAIN own -> RepoOutcomes] } :
                    own \in ViewRepoListings } :
            memberList \in MemberListings, dateRange \in DateRanges }

\* fetchData: the dashboard wraps the report getOrganization returned
FetchData(orgName, orgData) ==
    /\ ~organization.made
    /\ organization' = newOrganization(orgName, orgData.repos, orgData.members,
                                       orgData.yearlyStats)
    /\ view' = [report |-> orgData, query |-> "none"]
    /\ UNCHANGED << orgVars, statsCall, calc, dashboard, paging, batching >>

\* The dashboard's queries of the Organization: the Organization is left as
\* the query leaves it, the view records the answer (a number under number,
\* an array or an object under value).

QueryTotalStars ==
    /\ organization.made
    /\ organization' = getTotalStars(organization).this
    /\ view' = [ report |-> view.report, query |-> "getTotalStars", limit |-> 0,
                 number |-> getTotalStars(organization).value ]
    /\ UNCHANGED << orgVars, statsCall, calc, dashboard, paging, batching >>

QueryMostPopularRepos(limit) ==
    /\ organization.made
    /\ organization' = getMostPopularRepos(organization, limit).this
    /\ view' = [ report |-> view.report, query |-> "getMostPopularRepos", limit |-> limit,
                 value |-> getMostPopularRepos(organization, limit).value ]
    /\ UNCHANGED << orgVars, statsCall, calc, dashboard, paging, batching >>

QueryMostActiveRepos(limit) ==
    /\ organization.made
    /\ organization' = getMostActiveRepos(organization, limit).this
    /\ view' = [ report |-> view.report, query |-> "getMostActiveRepos", limit |-> limit,
                 value |-> getMostActiveRepos(organization, limit).value ]
    /\ UNCHANGED << orgVars, statsCall, calc, dashboard, paging, batching >>

QueryMostActiveMembers(limit) ==
    /\ organization.made
    /\ organization' = getMostActiveMembers(organization, limit).this
    /\ view' = [ report |-> view.report, query |-> "getMostActiveMembers", limit |-> limit,
                 value |-> getMostActiveMembers(organization, limit).value ]
    /\ UNCHANGED << orgVars, statsCall, calc, dashboard, paging, batching >>

QueryPullRequestTypeStats ==
    /\ organization.made
    /\ organization' = getPullRequestTypeStats(organization).this
    /\ view' = [ report |-> view.report, query |-> "getPullRequestTypeStats", limit |-> 0,
                 value |-> getPullRequestTypeStats(organization).value ]
    /\ UNCHANGED << orgVars, statsCall, calc, dashboard, paging, batching >>

QueryYearlyStats ==
    /\ organization.made
    /\ organization' = getYearlyStats(organization).this
    /\ view' = [ report |-> view.report, query |-> "getYearlyStats", limit |-> 0,
                 value |-> getYearlyStats(organization).value ]
    /\ UNCHANGED << orgVars, statsCall, calc, dashboard, paging, batching >>

NextView ==
    \/ \E orgName \in Orgs, orgData \in ViewReports : FetchData(orgName, orgData)
    \/ QueryTotalStars
    \/ \E limit \in Limits : QueryMostPopularRepos(limit)
    \/ \E limit \in Limits : QueryMostActiveRepos(limit)
    \/ \E limit \in Limits : QueryMostActiveMembers(limit)
    \/ QueryPullRequestTypeStats
    \/ QueryYearlyStats

SpecView == Init /\ [][NextView]_vars

----------------------------------------------------------------------------
(* The Dashboard component: an effect runs fetchData for each value of the  *)
(* credentials prop; the effect has no cleanup                               *)

MaxEffects == 3

CredentialsPool ==
    { [token |-> "t1", organization |-> "acme"],
      [token |-> "t2", organization |-> "globex"] }

\* reports getOrganization may resolve with
DashReports ==
    { AssembleReport(<< [login |-> "alice"], [login |-> "bob"] >>,
                     [ i \in DOMAIN own |->
                         SettleRepo(own[i], [failed |-> FALSE, data |-> d], 12, 23) ],
                     12, 23) :
        own \in { s \in RepoListings : Len(s) = 1 },
        d \in { m \in RepoDataMenu : m.currentOpenIssues < 2 } }

\* the onProgress invocations a run may make
ProgressPool == { << 1, 1 >>, << 1, 2 >>, << 2, 2 >> }

NoData == [present |-> FALSE]

\* lines 39-57: the Organization is built and queried, the answers go to setData
DashboardData(orgName, orgData) ==
    LET totalStars == getTotalStars(newOrganization(orgName, orgData.repos,
                                                    orgData.members, orgData.yearlyStats))
        topReposByStars == getMostPopularRepos(totalStars.this, 5)
        topReposByCommits == getMostActiveRepos(topReposByStars.this, 5)
        topMembers == getMostActiveMembers(topReposByCommits.this, 5)
        yearlyStats == getYearlyStats(topMembers.this)
        prTypeStats == getPullRequestTypeStats(yearlyStats.this)
    IN [ present |-> TRUE,
         totalStars |-> totalStars.value,
         topReposByStars |-> topReposByStars.value,
         topReposByCommits |-> topReposByCommits.value,
         topMembers |-> SelectSeq(topMembers.value, LAMBDA x : x.contributions > 0),
         memberCount |-> Len(topMembers.this.members),
         yearlyStats |-> yearlyStats.value,
         prTypeStats |-> prTypeStats.value,
         monthlyIssueStats |-> orgData.monthlyIssueStats ]

\* the effect body up to the await: fetchData starts a getOrganization run
StartEffect(credentials) == [credentials |-> credentials, status |-> "pending"]

\* first render and first effect
Mount(credentials) ==
    /\ ~dashboard.mounted
    /\ dashboard' = [ mounted |-> TRUE,
                      credentials |-> credentials,
                      effects |-> << StartEffect(credentials) >>,
                      data |-> NoData,
                      loading |-> TRUE,
                      loadingMessage |-> "Fetching organization data...",
                      progress |-> << 0, 0 >>,
                      toasts |-> 0 ]
    /\ UNCHANGED << orgVars, statsCall, calc, organization, view, paging, batching >>

\* the parent renders the component with other credentials: the effect runs again
CredentialsChange(credentials) ==
    /\ dashboard.mounted
    /\ Len(dashboard.effects) < MaxEffects
    /\ credentials # dashboard.credentials
    /\ dashboard' = [dashboard EXCEPT
                        !.credentials = credentials,
                        !.effects = Append(@, StartEffect(credentials)),
                        !.loadingMessage = "Fetching organization data..."]
    /\ UNCHANGED << orgVars, statsCall, calc, organization, view, paging, batching >>

\* the onProgress callback of the run of effect k
EffectProgress(k, current, total) ==
    /\ dashboard.mounted
    /\ k \in DOMAIN dashboard.effects
    /\ dashboard.effects[k].status = "pending"
    /\ dashboard' = [dashboard EXCEPT
                        !.progress = << current, total >>,
                        !.loadingMessage = "Processing repositories (current/total)..."]
    /\ UNCHANGED << orgVars, statsCall, calc, organization, view, paging, batching >>

\* the run of effect k resolved: the rest of the try block, then finally
EffectResolve(k, orgData) ==
    /\ dashboard.mounted
    /\ k \in DOMAIN dashboard.effects
    /\ dashboard.effects[k].status = "pending"
    /\ dashboard' = [dashboard EXCEPT
                        !.effects[k] = [ credentials |-> @.credentials,
                                         status |-> "resolved", orgData |-> orgData ],
                        !.data = DashboardData(dashboard.effects[k].credentials.organization,
                                               orgData),
                        !.loading = FALSE]
    /\ UNCHANGED << orgVars, statsCall, calc, organization, view, paging, batching >>

\* the run of effect k rejected: the catch block, then finally
EffectReject(k) ==
    /\ dashboard.mounted
    /\ k \in DOMAIN dashboard.effects
    /\ dashboard.effects[k].status = "pending"
    /\ dashboard' = [dashboard EXCEPT
                        !.effects[k] = [ credentials |-> @.credentials,
                                         status |-> "rejected" ],
                        !.toasts = @ + 1,
                        !.loading = FALSE]
    /\ UNCHANGED << orgVars, statsCall, calc, organization, view, paging, batching >>

NextDash ==
    \/ \E credentials \in CredentialsPool : Mount(credentials)
    \/ \E credentials \in CredentialsPool : CredentialsChange(credentials)
    \/ \E k \in 1 .. MaxEffects, p \in ProgressPool : EffectProgress(k, p[1], p[2])
    \/ \E k \in 1 .. MaxEffects, orgData \in DashReports : EffectResolve(k, orgData)
    \/ \E k \in 1 .. MaxEffects : EffectReject(k)

SpecDash == Init /\ [][NextDash]_vars

----------------------------------------------------------------------------
(* getAllPages: the pagination loop, one request in flight at a time         *)

MaxPages == 3

PageKey == << "p", "a", "g", "e" >>

PerPageKey == << "p", "e", "r", "_", "p", "a", "g", "e" >>

OrgKey == << "o", "r", "g" >>

StateKey == << "s", "t", "a", "t", "e" >>

\* the params a caller passes; the second one carries page and per_page itself
ParamsPool ==
    { << [key |-> OrgKey, value |-> "acme"] >>,
      << [key |-> OrgKey, value |-> "acme"], [key |-> PerPageKey, value |-> 30],
         [key |-> StateKey, value |-> "all"], [key |-> PageKey, value |-> 7] >> }

\* the items a page may hold
PageDataPool == { << >>, << "i1" >>, << "i2", "i3" >>, << "i1", "i4" >> }

\* response.headers.link: absent, or the relations the header names
NoLink == [present |-> FALSE]

Link(rels) == [present |-> TRUE, rels |-> rels]

LinkPool ==
    { NoLink, Link(<< >>), Link(<< "prev", "first" >>), Link(<< "next", "last" >>),
      Link(<< "prev", "next", "first", "last" >>) }

PageResponses == { [data |-> d, link |-> l] : d \in PageDataPool, l \in LinkPool }

PageErrors == { "HTTP 500", "HTTP 403" }

\* { ...params, page, per_page: 100 }
PageRequest(params, page) == ObjSet(ObjSet(params, PageKey, page), PerPageKey, 100)

\* linkHeader && linkHeader.includes('rel="next"')
HasNextPage(linkHeader) ==
    /\ linkHeader.present
    /\ linkHeader.rels # << >>
    /\ \E i \in DOMAIN linkHeader.rels : linkHeader.rels[i] = "next"

\* getAllPages(method, params) up to its first await
GetAllPages(params) ==
    /\ paging.phase # "awaiting"
    /\ paging' = [ phase |-> "awaiting", params |-> params, page |-> 1,
                   allData |-> << >>,
                   requests |-> << PageRequest(params, 1) >>,
                   responses |-> << >> ]
    /\ UNCHANGED << orgVars, statsCall, calc, organization, view, dashboard, batching >>

\* mutant: a page's items are put in front of the items gathered so far
PageRespond_Prepends(response) ==
    /\ paging.phase = "awaiting"
    /\ HasNextPage(response.link) => paging.page < MaxPages
    /\ LET allData == response.data \o paging.allData
           page == paging.page + 1
       IN paging' =
            IF HasNextPage(response.link)
            THEN [paging EXCEPT !.allData = allData, !.page = page,
                                !.responses = Append(@, response),
                                !.requests = Append(@, PageRequest(paging.params, page))]
            ELSE [ phase |-> "returned", params |-> paging.params, page |-> page,
                   allData |-> allData, requests |-> paging.requests,
                   responses |-> Append(paging.responses, response),
                   value |-> allData ]
    /\ UNCHANGED << orgVars, statsCall, calc, organization, view, dashboard, batching >>

\* the awaited request resolved: the rest of the loop body, then the loop
\* test, and either the next request or the return
PageRespond(response) ==
    /\ paging.phase = "awaiting"
    /\ HasNextPage(response.link) => paging.page < MaxPages
    /\ LET allData == paging.allData \o response.data
           page == paging.page + 1
       IN paging' =
            IF HasNextPage(response.link)
            THEN [paging EXCEPT !.allData = allData, !.page = page,
                                !.responses = Append(@, response),
                                !.requests = Append(@, PageRequest(paging.params, page))]
            ELSE [ phase |-> "returned", params |-> paging.params, page |-> page,
                   allData |-> allData, requests |-> paging.requests,
                   responses |-> Append(paging.responses, response),
                   value |-> allData ]
    /\ UNCHANGED << orgVars, statsCall, calc, organization, view, dashboard, batching >>

\* mutant: a failed page ends the loop and the items gathered so far are returned
PageFail_ReturnsPartial(error) ==
    /\ paging.phase = "awaiting"
    /\ paging' = [ phase |-> "returned", params |-> paging.params, page |-> paging.page,
                   allData |-> paging.allData, requests |-> paging.requests,
                   responses |-> paging.responses, value |-> paging.allData ]
    /\ UNCHANGED << orgVars, statsCall, calc, organization, view, dashboard, batching >>

\* the awaited request rejected: the await throws, nothing catches it
PageFail(error) ==
    /\ paging.phase = "awaiting"
    /\ paging' = [ phase |-> "failed", params |-> paging.params, page |-> paging.page,
                   allData |-> paging.allData, requests |-> paging.requests,
                   responses |-> paging.responses, error |-> error ]
    /\ UNCHANGED << orgVars, statsCall, calc, organization, view, dashboard, batching >>

NextPages ==
    \/ \E params \in ParamsPool : GetAllPages(params)
    \/ \E response \in PageResponses : PageRespond(response)
    \/ \E error \in PageErrors : PageFail(error)

SpecPages == Init /\ [][NextPages]_vars

----------------------------------------------------------------------------
(* The cache store used directly: saves and lookups in any order             *)

MaxCacheOps == 3

CacheKeysPool ==
    { cacheKey("acme", [fromDate |-> 12, toDate |-> 23]),
      cacheKey("globex", [fromDate |-> 12, toDate |-> 23]) }

\* reports a caller may save: no repositories, with and without members
CachePayloads == { AssembleReport(memberList, << >>, 12, 23) : memberList \in MemberListings }

\* saveToCache(orgName, data)
CacheSave(orgName, data) ==
    /\ Len(cacheOps) < MaxCacheOps
    /\ localStorage' = saveToCache(orgName, data, now)
    /\ cacheOps' = Append(cacheOps, [op |-> "save", key |-> orgName, at |-> now,
                                     data |-> data])
    /\ UNCHANGED << now, ticks, pc, req, members, ownRepos, repoStats, fetched, processed,
                    progressLog, calls, result, lastGet, lastSaved, listedForks,
                    statsCall, calc, organization, view, dashboard, paging, batching >>

\* getFromCache(orgName)
CacheGet(orgName) ==
    /\ Len(cacheOps) < MaxCacheOps
    /\ localStorage' = getFromCache(localStorage, orgName, now).store
    /\ cacheOps' = Append(cacheOps,
                          [ op |-> "get", key |-> orgName, at |-> now,
                            answer |-> IF getFromCache(localStorage, orgName, now).hit
                                       THEN [ hit |-> TRUE,
                                              data |-> getFromCache(localStorage, orgName,
                                                                    now).data ]
                                       ELSE [ hit |-> FALSE ] ])
    /\ UNCHANGED << now, ticks, pc, req, members, ownRepos, repoStats, fetched, processed,
                    progressLog, calls, result, lastGet, lastSaved, listedForks,
                    statsCall, calc, organization, view, dashboard, paging, batching >>

NextCache ==
    \/ \E orgName \in CacheKeysPool, data \in CachePayloads : CacheSave(orgName, data)
    \/ \E orgName \in CacheKeysPool : CacheGet(orgName)
    \/ \E dt \in ClockSteps : Tick(dt)

SpecCache == Init /\ [][NextCache]_vars

----------------------------------------------------------------------------
(* getMemberContributions: contributor statistics in batches *)

\* the longest repository list handed to getMemberContributions
MaxBatchRepos == 6

\* const batchSize = 5
batchSize == 5

\* the delay between two batches, in milliseconds
batchDelay == 1000

\* the repositories handed to the call: only their names are read
RepoList(n) == [ k \in 1 .. n |-> [ name |-> k ] ]

\* what repos.getContributorsStats may answer for one repository: a
\* rejection, a response without data, or the statistics of its contributors
\* (one of them without an author)
ContributorsStatsResponses ==
    { [ rejected |-> TRUE, hasData |-> FALSE, data |-> << >> ],
      [ rejected |-> FALSE, hasData |-> FALSE, data |-> << >> ],
      [ rejected |-> FALSE, hasData |-> TRUE,
        data |-> << Contributor(<< "a", "l" >>, << Week(13, 2), Week(30, 5) >>),
                    Contributor(<< >>, << Week(14, 7) >>) >> ],
      [ rejected |-> FALSE, hasData |-> TRUE,
        data |-> << Contributor(<< "b", "o" >>, << Week(14, 1) >>),
                    Contributor(<< "a", "l" >>, << Week(15, 3), Week(25, 1) >>) >> ] }

\* mutant: the batch runs to the end of the list
batch_ToEnd(repos, i) == SubSeq(repos, i + 1, Len(repos))

\* const batch = repos.slice(i, i + batchSize)
batch(repos, i) ==
    SubSeq(repos, i + 1, IF i + batchSize < Len(repos) THEN i + batchSize ELSE Len(repos))

\* stats.forEach: memberStats[login] = (memberStats[login] || 0) + yearCommits
RECURSIVE AddYearCommits(_, _, _)
AddYearCommits(memberStats, stats, currentYear) ==
    IF stats = << >> THEN memberStats
    ELSE AddYearCommits(
             IF Head(stats).login # << >>
             THEN ObjSet(memberStats, Head(stats).login,
                         ObjGet(memberStats, Head(stats).login)
                           + WeekCommits(Head(stats), YearWindow(currentYear)))
             ELSE memberStats,
             Tail(stats), currentYear)

\* the callback of batch.map for one repository, once its request has settled
AfterResponse(memberStats, response, currentYear) ==
    IF response.rejected THEN memberStats
    ELSE IF response.hasData
         THEN AddYearCommits(memberStats, response.data, currentYear)
         ELSE memberStats

\* the names of the repositories of the batch that starts at index i
BatchNames(repos, i) ==
    { batch(repos, i)[k].name : k \in DOMAIN batch(repos, i) }

\* getMemberContributions(owner, repos) is called: the first batch of
\* requests is issued, or an empty list returns at once
GetMemberContributions(n, currentYear) ==
    /\ batching.phase = "idle"
    /\ batching' =
         IF 0 < n
         THEN [ phase |-> "batch", repos |-> RepoList(n), currentYear |-> currentYear,
                i |-> 0, inFlight |-> BatchNames(RepoList(n), 0),
                responses |-> [ k \in 1 .. n |-> Pending ],
                memberStats |-> << >>, delays |-> << >> ]
         ELSE [ phase |-> "returned", repos |-> RepoList(n), currentYear |-> currentYear,
                i |-> 0, inFlight |-> {},
                responses |-> << >>,
                memberStats |-> << >>, delays |-> << >> ]
    /\ UNCHANGED << orgVars, statsCall, calc, organization, view, dashboard, paging >>

\* the request of one repository of the batch settles; with the last one
\* Promise.all resolves, and the loop sets the timer or returns
BatchSettle(name, response) ==
    /\ batching.phase = "batch"
    /\ name \in batching.inFlight
    /\ LET inFlight == batching.inFlight \ { name }
       IN batching' =
            [ batching EXCEPT
                !.inFlight = inFlight,
                !.responses[name] = response,
                !.memberStats = AfterResponse(@, response, batching.currentYear),
                !.phase = IF inFlight # {} THEN "batch"
                          ELSE IF batching.i + batchSize < Len(batching.repos)
                               THEN "delay" ELSE "returned",
                !.delays = IF inFlight = {}
                              /\ batching.i + batchSize < Len(batching.repos)
                           THEN Append(@, batchDelay) ELSE @ ]
    /\ UNCHANGED << orgVars, statsCall, calc, organization, view, dashboard, paging >>

\* the timer between two batches fires: the next batch of requests is issued
BatchDelayElapsed ==
    /\ batching.phase = "delay"
    /\ batching' = [ batching EXCEPT
                       !.phase = "batch",
                       !.i = @ + batchSize,
                       !.inFlight = BatchNames(batching.repos, batching.i + batchSize) ]
    /\ UNCHANGED << orgVars, statsCall, calc, organization, view, dashboard, paging >>

NextBatches ==
    \/ \E n \in 0 .. MaxBatchRepos, currentYear \in CalcYears :
          GetMemberContributions(n, currentYear)
    \/ \E name \in 1 .. MaxBatchRepos, response \in ContributorsStatsResponses :
          BatchSettle(name, response)
    \/ BatchDelayElapsed

SpecBatches == Init /\ [][NextBatches]_vars

----------------------------------------------------------------------------
(* Properties of getOrganization and the cache store *)

MissRunDone == pc = "done" /\ lastGet.made /\ ~lastGet.hit

HitRunDone == pc = "done" /\ lastGet.made /\ lastGet.hit

FromDate == req.dateRange.fromDate

ToDate == req.dateRange.toDate

\* C1: after a run whose listings succeeded, the report's repos array has one
\* entry per non-fork repository, failed ones included, and the entry of a
\* failed repository has closedIssues = 0 and commitCount = 0.
C1_FailedRepoKeepsEntry ==
    MissRunDone =>
        /\ result.kind = "report"
        /\ Len(result.report.repos) = Len(ownRepos)
        /\ \A i \in DOMAIN ownRepos :
              /\ result.report.repos[i].name = ownRepos[i].name
              /\ fetched[i].failed =>
                    /\ result.report.repos[i].closedIssues = 0
                    /\ result.report.repos[i].commitCount = 0

\* C2: on a cache hit getOrganization returns exactly the report the most
\* recent save for that key stored, issues no remote request and never
\* invokes onProgress.
C2_CacheHit ==
    HitRunDone =>
        /\ lastSaved.present
        /\ lastSaved.key = lastGet.key
        /\ result = [kind |-> "report", report |-> lastSaved.report]
        /\ calls = ZeroCalls
        /\ progressLog = << >>

C2_Witness ==
    /\ HitRunDone
    /\ Len(result.report.repos) = 2
    /\ Len(result.report.members) = 2
    /\ lastGet.at > lastSaved.at

\* a call of getOrganization begins in this step
StartStep == pc \in { "idle", "done", "failed" } /\ lastGet' # lastGet

\* C3: get(key) answers absent and removes the stored entry when the entry is
\* older than 24 hours or stored under another key; otherwise (same key, age
\* at most 24 hours) it answers the stored payload and leaves the store as it
\* was.
C3_GetFreshness ==
    [][ (StartStep /\ lastSaved.present) =>
          IF lastSaved.key # lastGet'.key \/ now - lastSaved.at > 24 * 60 * 60 * 1000
          THEN /\ ~lastGet'.hit
               /\ ~localStorage'.present
               /\ pc' = "listing"
          ELSE /\ lastGet'.hit
               /\ result' = [kind |-> "report", report |-> lastSaved.report]
               /\ localStorage' = localStorage
               /\ localStorage'.present ]_vars

\* a lookup of the stored key exactly 24 hours after the save still hits; one
\* millisecond later it purged the entry
C3_Witness ==
    /\ lastGet.made
    /\ lastGet.case = "expired"
    /\ ~lastGet.hit
    /\ ~localStorage.present
    /\ pc = "listing"

C3_WitnessFreshAtLimit ==
    /\ HitRunDone
    /\ lastGet.at - lastSaved.at = 24 * 60 * 60 * 1000

\* C4: when the member listing or the repository listing fails, the call
\* fails with that error, produces no report, issues no per-repository fetch
\* and writes nothing to the cache: the store is as the initial get left it.
C4_FatalListingFailure ==
    pc = "failed" =>
        /\ result.kind = "error"
        /\ result.error \in { "members", "repos" }
        /\ calls = [ZeroCalls EXCEPT !.members = 1, !.repos = 1]
        /\ repoStats = << >>
        /\ progressLog = << >>
        /\ localStorage = lastGet.after

\* the failed call's initial get had purged an entry stored for another key
C4_Witness ==
    /\ pc = "failed"
    /\ result.kind = "error"
    /\ lastGet.case = "other key"

Settled == { i \in DOMAIN fetched : fetched[i] # Unsettled }

\* C5: in a cache-miss run with N non-fork repositories onProgress is invoked
\* once per settled repository, failed or not; the k-th invocation is (k, N);
\* at the end it has been invoked exactly N times, never when N = 0.
C5_ProgressCounts ==
    (lastGet.made /\ ~lastGet.hit /\ pc \in { "fetching", "done" }) =>
        /\ Len(progressLog) = Cardinality(Settled)
        /\ \A k \in DOMAIN progressLog : progressLog[k] = << k, Len(ownRepos) >>
        /\ pc = "done" => Len(progressLog) = Len(ownRepos)

\* two repositories, one failed and one answered: two invocations, the last (2, 2)
C5_Witness ==
    /\ MissRunDone
    /\ progressLog = << << 1, 2 >>, << 2, 2 >> >>
    /\ fetched[1].failed
    /\ ~fetched[2].failed

C5_WitnessNone ==
    /\ MissRunDone
    /\ ownRepos = << >>
    /\ progressLog = << >>

EmptyData == [ contributorStats |-> << >>, issues |-> << >>, pullRequests |-> << >>,
               currentOpenIssues |-> 0 ]

\* the results of the run, had every failed repository answered no data
ResultsWithEmptyForFailed ==
    [ i \in DOMAIN repoStats |->
        IF fetched[i].failed THEN RepoStatsOf(ownRepos[i], EmptyData, FromDate, ToDate)
        ELSE repoStats[i] ]

\* C6: a failed per-repository fetch never fails getOrganization: the run
\* returns a report and saves it, and the commit, issue, pull-request, member
\* and monthly figures are those of a run in which the failed repository
\* returned no data.
C6_RepoFailureIsolated ==
    /\ pc = "failed" => (repoStats = << >> /\ result.error \in { "members", "repos" })
    /\ MissRunDone =>
          LET other == AssembleReport(members, ResultsWithEmptyForFailed, FromDate, ToDate)
          IN /\ result.kind = "report"
             /\ localStorage = saveToCache(lastGet.key, result.report, lastSaved.at)
             /\ result.report.members = other.members
             /\ result.report.monthlyIssueStats = other.monthlyIssueStats
             /\ result.report.yearlyStats.commits = other.yearlyStats.commits
             /\ result.report.yearlyStats.issues = other.yearlyStats.issues
             /\ result.report.yearlyStats.pullRequests = other.yearlyStats.pullRequests
             /\ \A r \in { result.report.repos[i] : i \in DOMAIN result.report.repos } :
                   \E j \in DOMAIN other.repos : other.repos[j] = r

C6_Witness ==
    /\ MissRunDone
    /\ Len(ownRepos) = 2
    /\ fetched[1].failed
    /\ ~fetched[2].failed
    /\ result.report.yearlyStats.commits > 0
    /\ result.report.yearlyStats.issues.opened > 0

\* C9: each issue counted as opened was created within the range, and each
\* issue counted as closed was closed within the range.
C9_CountedWithinRange ==
    MissRunDone =>
        \A i \in DOMAIN fetched :
            ~fetched[i].failed =>
                LET counted == FilteredIssues(fetched[i].data.issues, FromDate, ToDate)
                IN /\ repoStats[i].issues.opened = Len(counted)
                   /\ repoStats[i].issues.closed = Len(ClosedOf(counted))
                   /\ \A k \in DOMAIN counted :
                         FromDate <= counted[k].created_at /\ counted[k].created_at <= ToDate
                   /\ \A k \in DOMAIN ClosedOf(counted) :
                         /\ FromDate <= ClosedOf(counted)[k].closed_at
                         /\ ClosedOf(counted)[k].closed_at <= ToDate


----------------------------------------------------------------------------
(* Properties of getContributorStats *)

AllPending(statuses) == \A k \in DOMAIN statuses : statuses[k] = 202

\* C7: when every request is answered 202, getContributorStats retries at
\* most 3 times, waits 1000 ms before each retry, then returns an empty
\* sequence; it has no failing outcome, and a request that throws yields an
\* empty sequence too.
C7_PendingGivesUpEmpty ==
    statsCall.phase # "idle" =>
        /\ statsCall.phase \in { "requesting", "waiting", "returned" }
        /\ statsCall.attempts - 1 <= 3
        /\ Len(statsCall.delays) = statsCall.attempts - 1
        /\ \A k \in DOMAIN statsCall.delays : statsCall.delays[k] = 1000
        /\ (AllPending(statsCall.statuses) /\ Len(statsCall.statuses) = 3 + 1) =>
              (statsCall.phase = "returned" /\ statsCall.value = << >>)
        /\ (statsCall.phase = "returned" /\ AllPending(statsCall.statuses)) =>
              statsCall.value = << >>
        /\ (statsCall.phase = "returned"
              /\ statsCall.statuses[Len(statsCall.statuses)] = 0) =>
              statsCall.value = << >>

C7_Witness ==
    /\ statsCall.phase = "returned"
    /\ statsCall.statuses = << 202, 202, 202, 202 >>
    /\ statsCall.delays = << 1000, 1000, 1000 >>
    /\ statsCall.value = << >>

C7_WitnessThrew ==
    /\ statsCall.phase = "returned"
    /\ statsCall.statuses = << 202, 0 >>
    /\ statsCall.value = << >>

\* C8 as stated: one getContributorStats call issues at most 3 requests.
C8_AtMostThreeRequests ==
    statsCall.phase # "idle" => statsCall.attempts <= 3

\* C8 amended: one getContributorStats call issues at most 4 requests, the
\* first one and 3 retries.
C8_AtMostFourRequests ==
    statsCall.phase # "idle" =>
        /\ statsCall.attempts <= 1 + 3
        /\ Len(statsCall.statuses) <= statsCall.attempts

C8_Witness ==
    /\ statsCall.phase = "returned"
    /\ statsCall.attempts = 1 + 3
    /\ Len(statsCall.statuses) = statsCall.attempts

----------------------------------------------------------------------------
(* Properties of the stats calculator *)

\* issues created before the year and not closed before it began
OpenAtStart(issues, year) ==
    Len(SelectSeq(issues, LAMBDA i :
            /\ ~i.pull_request
            /\ getFullYear(i.created_at) < year
            /\ (i.closed_at = NullDate \/ getFullYear(i.closed_at) >= year)))

\* C10: total[m] = total[m-1] + opened[m] - closed[m] for every month m, the
\* total before the first month being the number of issues open at the start;
\* a month without opened or closed issues carries the previous total forward.
C10_RunningTotal ==
    calc.phase = "monthly" =>
        \A m \in Months :
            calc.monthlyStats[m].total =
                (IF m = 0 THEN OpenAtStart(calc.issues, calc.year)
                 ELSE calc.monthlyStats[m - 1].total)
                + calc.monthlyStats[m].opened - calc.monthlyStats[m].closed

\* issues created before the year that are still open at the end of month m of it
OpenFromBefore(issues, year, m) ==
    Len(SelectSeq(issues, LAMBDA i :
            /\ ~i.pull_request
            /\ getFullYear(i.created_at) < year
            /\ (i.closed_at = NullDate \/ i.closed_at > year * 12 + m)))

\* C11: an issue created before the period is counted in no month's opened,
\* and while it is open it is included in the running total of the period's
\* months, also when no issue is created inside the period.
C11_EarlierIssuesInTotal ==
    calc.phase = "monthly" =>
        \A m \in Months :
            /\ calc.monthlyStats[m].opened =
                  Len(SelectSeq(calc.issues, LAMBDA i :
                          ~i.pull_request /\ i.created_at = calc.year * 12 + m))
            /\ calc.monthlyStats[m].total >= OpenFromBefore(calc.issues, calc.year, m)

\* the pull-request type named by a branch ref: the characters before its
\* first "/", each upper-case letter replaced by its lower-case letter
LowerOf(c) ==
    IF \E k \in DOMAIN UpperChars : UpperChars[k] = c
    THEN LowerChars[CHOOSE k \in DOMAIN UpperChars : UpperChars[k] = c]
    ELSE c

FirstSlash(ref) ==
    CHOOSE k \in DOMAIN ref : ref[k] = "/" /\ \A j \in 1 .. k - 1 : ref[j] # "/"

TypeNamed(pr) ==
    IF pr.hasHead /\ \E k \in DOMAIN pr.ref : pr.ref[k] = "/"
    THEN [ i \in 1 .. FirstSlash(pr.ref) - 1 |-> LowerOf(pr.ref[i]) ]
    ELSE Unknown

ClosedIndices(prs) == { i \in DOMAIN prs : prs[i].state = "closed" }

\* C12: categorizePRTypes counts only closed pull requests, each under exactly
\* one type, the lower-cased part of its branch ref before the first "/" or
\* "unknown" without a "/" or without branch metadata; the counts sum to the
\* number of closed pull requests.
C12_TypesOfClosed ==
    calc.phase = "categorized" =>
        /\ \A i, j \in DOMAIN calc.types :
              calc.types[i].key = calc.types[j].key => i = j
        /\ \A i \in DOMAIN calc.types :
              /\ calc.types[i].value >= 1
              /\ calc.types[i].value =
                    Cardinality({ k \in ClosedIndices(calc.prs) :
                                    TypeNamed(calc.prs[k]) = calc.types[i].key })
        /\ \A k \in ClosedIndices(calc.prs) :
              \E i \in DOMAIN calc.types : calc.types[i].key = TypeNamed(calc.prs[k])
        /\ SumSeq([ i \in DOMAIN calc.types |-> calc.types[i].value ]) =
              Cardinality(ClosedIndices(calc.prs))

C12_Witness ==
    /\ calc.phase = "categorized"
    /\ \E k \in DOMAIN calc.prs : calc.prs[k].state = "open"
    /\ \E i \in DOMAIN calc.types : calc.types[i].key = << "b", "u", "g" >>
    /\ \E i \in DOMAIN calc.types : calc.types[i].key = Unknown

\* a JavaScript object read as a mapping: its set of (key, value) pairs
AsMapping(obj) == { << obj[i].key, obj[i].value >> : i \in DOMAIN obj }

\* C13: categorizePRTypes gives the same type-to-count mapping for every
\* permutation of its input list.
C13_OrderInsensitive ==
    calc.phase = "categorized" =>
        \A p \in Permutations(DOMAIN calc.prs) :
            AsMapping(categorizePRTypes([ i \in DOMAIN calc.prs |-> calc.prs[p[i]] ]))
                = AsMapping(calc.types)

C13_Witness ==
    /\ calc.phase = "categorized"
    /\ Len(calc.prs) = 3
    /\ Len(calc.types) = 2
    /\ \E k \in DOMAIN calc.prs : calc.prs[k].state = "open"
    /\ \E p \in Permutations(DOMAIN calc.prs) :
          categorizePRTypes([ i \in DOMAIN calc.prs |-> calc.prs[p[i]] ]) # calc.types

----------------------------------------------------------------------------
(* Properties of the monthly series of a report *)

\* the sum, over the repositories that were aggregated, of one figure of month m
SlotSum(results, m, figure) ==
    SumSeq([ i \in DOMAIN results |->
               IF results[i].status = "ok"
               THEN results[i].issues.monthlyStats[m][figure] ELSE 0 ])

C14_WitnessNoRepository ==
    /\ MissRunDone
    /\ result.kind = "report"
    /\ Len(repoStats) = 2
    /\ \A i \in DOMAIN repoStats : repoStats[i].status = "null"

\* a group of repositories folded on its own, taken as one repository
AsOneRepository(stats) == [ issues |-> [ monthlyStats |-> MonthlyMerge(ZeroMonths, stats) ] ]

\* C15: folding the repositories' monthly series gives the same 12 slots for
\* every permutation of the repositories and for every grouping of them.
C15_FoldOrderFree ==
    calc.phase = "merged" =>
        \A p \in Permutations(DOMAIN calc.stats) :
            LET permuted == [ i \in DOMAIN calc.stats |-> calc.stats[p[i]] ]
            IN /\ MonthlyMerge(ZeroMonths, permuted) = calc.monthlyIssueStats
               /\ \A k \in 0 .. Len(permuted) :
                     MonthlyMerge(ZeroMonths,
                                  << AsOneRepository(SubSeq(permuted, 1, k)),
                                     AsOneRepository(SubSeq(permuted, k + 1, Len(permuted))) >>)
                        = calc.monthlyIssueStats

C15_Witness ==
    /\ calc.phase = "merged"
    /\ Len(calc.stats) = 3
    /\ \A i, j \in DOMAIN calc.stats : i # j => calc.stats[i] # calc.stats[j]
    /\ \A i \in DOMAIN calc.stats :
          \E m \in Months : calc.stats[i].issues.monthlyStats[m].total > 0

----------------------------------------------------------------------------
(* Properties of the members of a report *)

\* the commits of login in the weeks of the range, over the repositories whose
\* fetches resolved
CommitsInRange(login) ==
    SumSeq([ i \in DOMAIN fetched |->
        IF fetched[i].failed THEN 0
        ELSE SumSeq([ j \in DOMAIN fetched[i].data.contributorStats |->
                LET contributor == fetched[i].data.contributorStats[j]
                IN IF contributor.login # login THEN 0
                   ELSE SumSeq([ k \in DOMAIN contributor.weeks |->
                           IF contributor.weeks[k].w >= FromDate
                              /\ contributor.weeks[k].w <= ToDate
                           THEN contributor.weeks[k].c ELSE 0 ]) ]) ])

\* C16: the report's members array has one entry per listed member in listing
\* order; an entry's contributions is the sum over the aggregated repositories
\* of the login's weekly commits whose week lies in the range, 0 when there
\* are none; contributors that are not listed members add no entry.
C16_MemberContributions ==
    (MissRunDone /\ result.kind = "report") =>
        /\ Len(result.report.members) = Len(members)
        /\ \A i \in DOMAIN members :
              /\ result.report.members[i].login = members[i].login
              /\ result.report.members[i].contributions = CommitsInRange(members[i].login)
              /\ result.report.members[i].contributions >= 0

C16_Witness ==
    /\ MissRunDone
    /\ result.kind = "report"
    /\ FromDate = 12 /\ ToDate = 23
    /\ Len(fetched) = 2
    /\ result.report.members = << [login |-> "alice", contributions |-> 3],
                                  [login |-> "bob", contributions |-> 0] >>
    /\ \E i \in DOMAIN fetched :
          /\ ~fetched[i].failed
          /\ \E j \in DOMAIN fetched[i].data.contributorStats :
                fetched[i].data.contributorStats[j].login = "carol"
    /\ \E i \in DOMAIN fetched :
          /\ ~fetched[i].failed
          /\ \E j \in DOMAIN fetched[i].data.contributorStats :
                /\ fetched[i].data.contributorStats[j].login = "alice"
                /\ \E k \in DOMAIN fetched[i].data.contributorStats[j].weeks :
                      fetched[i].data.contributorStats[j].weeks[k].w > 23

----------------------------------------------------------------------------
(* Properties of the Organization view model *)

Smaller(a, b) == IF a < b THEN a ELSE b

\* C17: for a report of getOrganization, getMostActiveMembers(limit) returns
\* min(limit, number of members) members in descending order of the
\* contributions the report carries for them, each with that total.
C17_TopMembersByReportTotals ==
    view.query = "getMostActiveMembers" =>
        /\ Len(view.value) = Smaller(view.limit, Len(view.report.members))
        /\ \A k, l \in DOMAIN view.value :
              k < l => view.value[k].contributions >= view.value[l].contributions
        /\ \A k \in DOMAIN view.value :
              \E i \in DOMAIN view.report.members :
                  /\ view.report.members[i].login = view.value[k].login
                  /\ view.report.members[i].contributions = view.value[k].contributions

\* the position of the repository called name in the report's repos array
PositionOf(name) ==
    CHOOSE i \in DOMAIN view.report.repos : view.report.repos[i].name = name

\* value ranks the report's repositories by the figure named score
RankedBy(value, score, limit) ==
    LET repos == view.report.repos
    IN /\ Len(value) = Smaller(limit, Len(repos))
       /\ \A k \in DOMAIN value :
             \E i \in DOMAIN repos :
                 repos[i].name = value[k].name /\ repos[i][score] = value[k][score]
       /\ \A k, l \in DOMAIN value :
             k < l =>
                /\ value[k].name # value[l].name
                /\ value[k][score] >= value[l][score]
                /\ value[k][score] = value[l][score] =>
                      PositionOf(value[k].name) < PositionOf(value[l].name)
       /\ \A i \in DOMAIN repos :
             (\A k \in DOMAIN value : value[k].name # repos[i].name) =>
                 \A k \in DOMAIN value : repos[i][score] <= value[k][score]

\* C18: getMostPopularRepos(limit) and getMostActiveRepos(limit) return
\* min(limit, number of eligible repositories) repositories in non-increasing
\* order of stars, resp. commitCount; a repository left out scores no more
\* than any returned one, and repositories of equal score keep the relative
\* order of the report's repos array.
C18_TopRepositories ==
    /\ view.query = "getMostPopularRepos" => RankedBy(view.value, "stars", view.limit)
    /\ view.query = "getMostActiveRepos" => RankedBy(view.value, "commitCount", view.limit)

C18_Witness ==
    /\ view.query = "getMostPopularRepos"
    /\ view.limit = 2
    /\ Len(view.report.repos) = 3
    /\ view.report.repos[1].stars = view.report.repos[2].stars
    /\ view.report.repos[3].stars > view.report.repos[1].stars
    /\ view.value[1].name = view.report.repos[3].name
    /\ view.value[2].name = view.report.repos[1].name

C18_WitnessCommits ==
    /\ view.query = "getMostActiveRepos"
    /\ view.limit = 2
    /\ Len(view.report.repos) = 3
    /\ view.report.repos[1].commitCount = view.report.repos[2].commitCount
    /\ view.report.repos[3].commitCount > view.report.repos[1].commitCount
    /\ view.value[1].name = view.report.repos[3].name
    /\ view.value[2].name = view.report.repos[1].name

\* C19: getPullRequestTypeStats returns the type-to-count pairs of
\* yearlyStats.pullRequests.types, enumerated in non-increasing order of
\* count, whatever the type names are.
C19_BreakdownSortedByCount ==
    view.query = "getPullRequestTypeStats" =>
        /\ AsMapping(view.value) = AsMapping(view.report.yearlyStats.pullRequests.types)
        /\ \A k, l \in DOMAIN view.value :
              k < l => view.value[k].value >= view.value[l].value

\* C20: no query changes the report the Organization was given: its repos
\* array (content and order), its members array and its yearlyStats stay as
\* they were, after any sequence of queries.
C20_QueriesReadOnly ==
    organization.made =>
        /\ organization.repos = view.report.repos
        /\ organization.members = view.report.members
        /\ organization.yearlyStats = view.report.yearlyStats

C20_Witness ==
    /\ organization.made
    /\ view.query = "getMostPopularRepos"
    /\ Len(view.report.repos) = 3
    /\ view.report.repos[1].stars < view.report.repos[3].stars
    /\ view.value[1].name = view.report.repos[3].name
    /\ organization.repos[1].name = view.report.repos[1].name

----------------------------------------------------------------------------
(* Properties of one run's use of the cache store *)

\* C21: within one getOrganization run the cache store is read exactly once,
\* before any remote request, and written at most once, after every
\* per-repository fetch has settled and the full report is assembled; the
\* payload written is the report returned, and nothing is written on a cache
\* hit or on a fatal failure.
C21_CacheReadOnceWrittenOnce ==
    lastGet.made =>
        /\ cacheOps # << >>
        /\ cacheOps[1].op = "get"
        /\ cacheOps[1].key = lastGet.key
        /\ cacheOps[1].requests = 0
        /\ \A k \in 2 .. Len(cacheOps) : cacheOps[k].op = "save"
        /\ Len(cacheOps) <= 2
        /\ Len(cacheOps) = 1 => localStorage = lastGet.after
        /\ Len(cacheOps) = 2 =>
              /\ pc = "done"
              /\ ~lastGet.hit
              /\ cacheOps[2].key = lastGet.key
              /\ cacheOps[2].pending = 0
              /\ AllSettled(repoStats)
              /\ result = [ kind |-> "report",
                            report |-> AssembleReport(members, repoStats, FromDate, ToDate) ]
              /\ localStorage = saveToCache(cacheOps[2].key, result.report, cacheOps[2].at)
        /\ (lastGet.hit \/ pc = "failed") => Len(cacheOps) = 1

\* a run of two repositories, one of them failed, read once and saved once
C21_Witness ==
    /\ MissRunDone
    /\ Len(ownRepos) = 2
    /\ fetched[1].failed
    /\ ~fetched[2].failed
    /\ Len(cacheOps) = 2
    /\ cacheOps[2].at > cacheOps[1].at

C21_WitnessHit ==
    /\ HitRunDone
    /\ cacheOps = << [ op |-> "get", key |-> lastGet.key, at |-> now, hit |-> TRUE,
                       requests |-> 0 ] >>

C21_WitnessFailed ==
    /\ pc = "failed"
    /\ Len(cacheOps) = 1
    /\ ~localStorage.present

\* the results array as Promise.all gives it: entry i is what the callback of
\* own repository i returned, whenever its fetches settled
ResultsByIndex ==
    [ i \in DOMAIN ownRepos |->
        IF fetched[i] = Unsettled THEN Pending
        ELSE SettleRepo(ownRepos[i], fetched[i], FromDate, ToDate) ]

\* C22: for fixed remote data the report returned (repos with their order,
\* members, yearlyStats, monthlyIssueStats) is the same for every order in
\* which the per-repository fetches complete: it is determined by the
\* listings and by what each repository's fetches answered.
C22_CompletionOrderFree ==
    (lastGet.made /\ ~lastGet.hit /\ pc \in { "fetching", "done" }) =>
        /\ repoStats = ResultsByIndex
        /\ pc = "done" =>
              result = [ kind |-> "report",
                         report |-> AssembleReport(members, ResultsByIndex, FromDate, ToDate) ]

\* the second repository's fetches completed before the first one's
C22_Witness ==
    /\ pc = "fetching"
    /\ Len(ownRepos) = 2
    /\ fetched[1] = Unsettled
    /\ fetched[2] # Unsettled
    /\ ~fetched[2].failed
    /\ repoStats[2].issues.opened > 0
    /\ members # << >>

\* a finished run of two repositories that answered different data
C22_WitnessReport ==
    /\ MissRunDone
    /\ Len(result.report.repos) = 2
    /\ result.report.repos[1].commitCount # result.report.repos[2].commitCount
    /\ result.report.yearlyStats.pullRequests.closed > 1

\* the names of the forks the listing held
ListedForkNames == { listedForks[i].name : i \in DOMAIN listedForks }

\* C23: a repository marked as a fork never takes part in aggregation: no
\* contributor-stats, issue or pull-request request is issued for it, it has
\* no entry in the report's repos array, it adds nothing to any total, and it
\* is not counted in the total passed to onProgress.
C23_ForksExcluded ==
    (lastGet.made /\ ~lastGet.hit /\ pc \in { "fetching", "done" }) =>
        /\ \A i \in DOMAIN ownRepos :
              ~ownRepos[i].fork /\ ownRepos[i].name \notin ListedForkNames
        /\ calls.contributorStats = Len(ownRepos)
        /\ calls.issues = Len(ownRepos)
        /\ calls.pullRequests = Len(ownRepos)
        /\ calls.openIssues = Len(ownRepos)
        /\ \A k \in DOMAIN progressLog : progressLog[k][2] = Len(ownRepos)
        /\ pc = "done" =>
              /\ \A j \in DOMAIN result.report.repos :
                    result.report.repos[j].name \notin ListedForkNames
              /\ Len(result.report.repos) <= Len(ownRepos)
              /\ result.report.yearlyStats.repositories.created
                    = Cardinality({ i \in DOMAIN ownRepos :
                          ~fetched[i].failed
                          /\ InRange(ownRepos[i].created_at, FromDate, ToDate) })
              /\ result.report.yearlyStats =
                    calculateYearlyStatsInRange(FilterBoolean(repoStats), FromDate, ToDate)
              /\ result.report.monthlyIssueStats =
                    MonthlyMerge(ZeroMonths, FilterBoolean(repoStats))

\* the listing held a fork created within the range before an own repository
C23_Witness ==
    /\ MissRunDone
    /\ Len(listedForks) = 1
    /\ InRange(listedForks[1].created_at, FromDate, ToDate)
    /\ Len(ownRepos) = 1
    /\ ~fetched[1].failed
    /\ progressLog = << << 1, 1 >> >>
    /\ Len(result.report.repos) = 1

\* the listing held nothing but a fork
C23_WitnessOnlyFork ==
    /\ MissRunDone
    /\ Len(listedForks) = 1
    /\ ownRepos = << >>
    /\ calls = [ZeroCalls EXCEPT !.members = 1, !.repos = 1]
    /\ result.report.repos = << >>

----------------------------------------------------------------------------
(* Properties of the Dashboard *)

AllEffectsSettled ==
    \A k \in DOMAIN dashboard.effects : dashboard.effects[k].status # "pending"

LatestEffect == dashboard.effects[Len(dashboard.effects)]

\* C24: when the credentials change while an earlier getOrganization run is
\* still in flight, the result of the earlier run is discarded: once every
\* run has settled, the displayed data is that of the run started for the
\* latest credentials, whichever run completes last.
C24_LatestCredentialsShown ==
    (dashboard.mounted /\ AllEffectsSettled /\ LatestEffect.status = "resolved") =>
        dashboard.data = DashboardData(LatestEffect.credentials.organization,
                                       LatestEffect.orgData)

----------------------------------------------------------------------------
(* Properties of getAllPages *)

\* the value a request carries under a key
ParamOf(request, key) == request[CHOOSE i \in DOMAIN request : request[i].key = key].value

\* the items of the pages received, page after page
RECURSIVE ItemsOf(_)
ItemsOf(responses) ==
    IF responses = << >> THEN << >>
    ELSE ItemsOf(SubSeq(responses, 1, Len(responses) - 1)) \o responses[Len(responses)].data

\* C25: the paginator requests pages 1, 2, 3, ... one at a time, each with
\* page size 100 and the caller's parameters, and returns the concatenation
\* of the pages' items in page order, keeping the order of the items within
\* each page; no item is dropped or duplicated.
C25_PagesInOrder ==
    paging.phase # "idle" =>
        /\ \A k \in DOMAIN paging.requests :
              /\ ObjHas(paging.requests[k], PageKey)
              /\ ParamOf(paging.requests[k], PageKey) = k
              /\ ObjHas(paging.requests[k], PerPageKey)
              /\ ParamOf(paging.requests[k], PerPageKey) = 100
              /\ ObjKeys(paging.requests[k]) = ObjKeys(paging.params) \cup { PageKey, PerPageKey }
              /\ \A key \in ObjKeys(paging.params) \ { PageKey, PerPageKey } :
                    ParamOf(paging.requests[k], key) = ParamOf(paging.params, key)
        /\ Len(paging.requests)
              = Len(paging.responses) + (IF paging.phase = "returned" THEN 0 ELSE 1)
        /\ paging.allData = ItemsOf(paging.responses)
        /\ paging.phase = "returned" =>
              /\ paging.value = ItemsOf(paging.responses)
              /\ Len(paging.value)
                    = SumSeq([ k \in DOMAIN paging.responses |-> Len(paging.responses[k].data) ])

\* three pages, the second one empty, four items returned
C25_Witness ==
    /\ paging.phase = "returned"
    /\ Len(paging.requests) = 3
    /\ paging.value = << "i2", "i3", "i1", "i4" >>
    /\ paging.responses[2].data = << >>
    /\ Len(paging.params) = 4

\* C26: the pagination loop terminates as soon as a response carries no
\* "next" relation, and it also terminates when a page returns no items, even
\* if that response still carries a "next" relation.
C26_StopsWithoutNextOrOnEmptyPage ==
    (paging.phase # "idle" /\ paging.responses # << >>) =>
        LET last == paging.responses[Len(paging.responses)]
        IN (~HasNextPage(last.link) \/ last.data = << >>) =>
              /\ paging.phase # "awaiting"
              /\ Len(paging.requests) = Len(paging.responses)

\* the half of C26 about the "next" relation: without it no further request
C26_StopsWithoutNext ==
    (paging.phase # "idle" /\ paging.responses # << >>) =>
        LET last == paging.responses[Len(paging.responses)]
        IN ~HasNextPage(last.link) =>
              /\ paging.phase = "returned"
              /\ Len(paging.requests) = Len(paging.responses)

\* C27: if the fetch of any page fails, the whole pagination operation fails
\* with that error: it never returns the items of the pages fetched before
\* the failure as if they were the complete collection, and it requests no
\* further page.
C27_PageFailureFailsAll ==
    /\ paging.phase = "returned" =>
          /\ Len(paging.requests) = Len(paging.responses)
          /\ "error" \notin DOMAIN paging
    /\ paging.phase = "failed" =>
          /\ "value" \notin DOMAIN paging
          /\ paging.error \in PageErrors
          /\ Len(paging.requests) = Len(paging.responses) + 1

\* the second page failed after the first one had delivered items
C27_Witness ==
    /\ paging.phase = "failed"
    /\ Len(paging.responses) = 1
    /\ paging.allData # << >>
    /\ Len(paging.requests) = 2

----------------------------------------------------------------------------
(* Properties of the monthly series and of the yearly rollup *)

\* the list without its k-th element
Without(s, k) == SubSeq(s, 1, k - 1) \o SubSeq(s, k + 1, Len(s))

\* issue k of the evaluated list was created and closed in one month of the year
SameMonthIssue(k) ==
    /\ ~calc.issues[k].pull_request
    /\ getFullYear(calc.issues[k].created_at) = calc.year
    /\ calc.issues[k].closed_at = calc.issues[k].created_at

\* C28: an issue created and closed in the same month of the period
\* increments both that month's opened and that month's closed by 1 and
\* leaves that month's ending total equal to what it would be without the
\* issue.
C28_SameMonthNetsZero ==
    calc.phase = "monthly" =>
        \A k \in DOMAIN calc.issues :
            SameMonthIssue(k) =>
                LET m == getMonth(calc.issues[k].created_at)
                    other == calculateMonthlyIssueStats(Without(calc.issues, k), calc.year)
                IN /\ calc.monthlyStats[m].opened = other[m].opened + 1
                   /\ calc.monthlyStats[m].closed = other[m].closed + 1
                   /\ calc.monthlyStats[m].total = other[m].total

\* the counters' half of C28
C28_CountersIncrement ==
    calc.phase = "monthly" =>
        \A k \in DOMAIN calc.issues :
            SameMonthIssue(k) =>
                LET m == getMonth(calc.issues[k].created_at)
                    other == calculateMonthlyIssueStats(Without(calc.issues, k), calc.year)
                IN /\ calc.monthlyStats[m].opened = other[m].opened + 1
                   /\ calc.monthlyStats[m].closed = other[m].closed + 1

\* the total's half of C28 for lists without an issue created before the year
C28_TotalKeptWithinYear ==
    (calc.phase = "monthly"
       /\ \A j \in DOMAIN calc.issues : getFullYear(calc.issues[j].created_at) >= calc.year) =>
        \A k \in DOMAIN calc.issues :
            SameMonthIssue(k) =>
                LET m == getMonth(calc.issues[k].created_at)
                    other == calculateMonthlyIssueStats(Without(calc.issues, k), calc.year)
                IN calc.monthlyStats[m].total = other[m].total

\* the repositories of the run whose fetches succeeded
OkRepos == { i \in DOMAIN repoStats : repoStats[i].status = "ok" }

\* the sum of the values a function gives on a finite set
RECURSIVE SumOver(_, _)
SumOver(S, f) ==
    IF S = {} THEN 0
    ELSE LET x == CHOOSE y \in S : TRUE
         IN f[x] + SumOver(S \ { x }, f)

\* the weeks of repository i's contributors that start within the range
WeeksInRange(i) ==
    { jk \in UNION { { << j, k >> : k \in DOMAIN repoStats[i].contributorStats[j].weeks } :
                     j \in DOMAIN repoStats[i].contributorStats } :
        InRange(repoStats[i].contributorStats[jk[1]].weeks[jk[2]].w, FromDate, ToDate) }

RepoCommitsInRange(i) ==
    SumOver(WeeksInRange(i),
            [ jk \in WeeksInRange(i) |->
                repoStats[i].contributorStats[jk[1]].weeks[jk[2]].c ])

AllTypeNames == UNION { ObjKeys(repoStats[i].pullRequests.types) : i \in OkRepos }

\* C29: yearlyStats equals the sums over the repositories: repositories
\* created in range, repositories archived in range, in-range weekly commits
\* of all contributors, issue opened and closed totals, pull-request opened
\* and closed totals, and a type histogram whose count for each type is the
\* sum of the repositories' counts for it; a repository without contributor
\* stats adds 0 commits.
C29_YearlyStatsAreSums ==
    MissRunDone =>
        LET yearlyStats == result.report.yearlyStats
        IN /\ yearlyStats.repositories.created =
                 Cardinality({ i \in OkRepos : InRange(repoStats[i].createdAt, FromDate, ToDate) })
           /\ yearlyStats.repositories.archived =
                 Cardinality({ i \in OkRepos :
                                 /\ repoStats[i].archivedAt # NullDate
                                 /\ InRange(repoStats[i].archivedAt, FromDate, ToDate) })
           /\ yearlyStats.commits = SumOver(OkRepos, [ i \in OkRepos |-> RepoCommitsInRange(i) ])
           /\ \A i \in OkRepos :
                 repoStats[i].contributorStats = << >> => RepoCommitsInRange(i) = 0
           /\ yearlyStats.issues.opened =
                 SumOver(OkRepos, [ i \in OkRepos |-> repoStats[i].issues.opened ])
           /\ yearlyStats.issues.closed =
                 SumOver(OkRepos, [ i \in OkRepos |-> repoStats[i].issues.closed ])
           /\ yearlyStats.pullRequests.opened =
                 SumOver(OkRepos, [ i \in OkRepos |-> repoStats[i].pullRequests.opened ])
           /\ yearlyStats.pullRequests.closed =
                 SumOver(OkRepos, [ i \in OkRepos |-> repoStats[i].pullRequests.closed ])
           /\ ObjKeys(yearlyStats.pullRequests.types) = AllTypeNames
           /\ \A i, j \in DOMAIN yearlyStats.pullRequests.types :
                 i # j => yearlyStats.pullRequests.types[i].key
                            # yearlyStats.pullRequests.types[j].key
           /\ \A type \in AllTypeNames :
                 ObjGet(yearlyStats.pullRequests.types, type) =
                    SumOver(OkRepos, [ i \in OkRepos |->
                                         ObjGet(repoStats[i].pullRequests.types, type) ])

\* two repositories that both closed a pull request of type unknown, one of
\* them archived within the range
C29_Witness ==
    /\ MissRunDone
    /\ Cardinality(OkRepos) = 2
    /\ ObjGet(result.report.yearlyStats.pullRequests.types, Unknown) = 2
    /\ ObjGet(repoStats[1].pullRequests.types, Unknown) = 1
    /\ result.report.yearlyStats.repositories.archived = 1
    /\ result.report.yearlyStats.repositories.created = 1
    /\ result.report.yearlyStats.commits > 0
    /\ result.report.yearlyStats.issues.closed > 0

\* one of two repositories has no contributor stats
C29_WitnessNoContributorStats ==
    /\ MissRunDone
    /\ Cardinality(OkRepos) = 2
    /\ repoStats[1].contributorStats = << >>
    /\ result.report.yearlyStats.commits = RepoCommitsInRange(2)
    /\ result.report.yearlyStats.commits > 0

----------------------------------------------------------------------------
(* Properties of the cache store used directly *)

\* the keys a lookup made now would find
KeysHeld == { k \in CacheKeysPool : getFromCache(localStorage, k, now).hit }

\* the save a lookup at position l of the log answers from: a save of the
\* same key, not older than 24 hours, with nothing after it but lookups of
\* that key
AnsweringSaves(l) ==
    { i \in 1 .. l - 1 :
        /\ cacheOps[i].op = "save"
        /\ cacheOps[i].key = cacheOps[l].key
        /\ cacheOps[l].at - cacheOps[i].at <= 24 * 60 * 60 * 1000
        /\ \A m \in i + 1 .. l - 1 :
              cacheOps[m].op = "get" /\ cacheOps[m].key = cacheOps[l].key }

\* C30: the cache store holds at most one entry at any time: save(k2, r2)
\* replaces whatever entry was stored, and a get(k1) with k1 different from
\* the stored key k2 removes the fresh k2 entry, so that the next get(k2)
\* answers absent although r2 was saved less than 24 hours before.
C30_SingleEntry ==
    /\ Cardinality(KeysHeld) <= 1
    /\ \A l \in DOMAIN cacheOps :
          cacheOps[l].op = "get" =>
              /\ cacheOps[l].answer.hit <=> AnsweringSaves(l) # {}
              /\ cacheOps[l].answer.hit =>
                    \A i \in AnsweringSaves(l) : cacheOps[l].answer.data = cacheOps[i].data
    /\ (cacheOps # << >> /\ cacheOps[Len(cacheOps)].op = "save") =>
          /\ localStorage = saveToCache(cacheOps[Len(cacheOps)].key,
                                        cacheOps[Len(cacheOps)].data,
                                        cacheOps[Len(cacheOps)].at)
          /\ KeysHeld \subseteq { cacheOps[Len(cacheOps)].key }
    /\ \A l \in DOMAIN cacheOps :
          (l > 1 /\ cacheOps[l].op = "get" /\ cacheOps[l - 1].op = "get"
             /\ cacheOps[l - 1].key # cacheOps[l].key) => ~cacheOps[l].answer.hit

\* save(k2, r2), get(k1), get(k2) within 24 hours: both lookups answer absent
C30_Witness ==
    /\ Len(cacheOps) = 3
    /\ cacheOps[1].op = "save"
    /\ cacheOps[2].op = "get"
    /\ cacheOps[2].key # cacheOps[1].key
    /\ cacheOps[3].op = "get"
    /\ cacheOps[3].key = cacheOps[1].key
    /\ cacheOps[3].at - cacheOps[1].at < 24 * 60 * 60 * 1000
    /\ cacheOps[3].at > cacheOps[1].at
    /\ ~cacheOps[3].answer.hit
    /\ ~localStorage.present

\* a save over an entry stored for another key: the other key is gone
C30_WitnessReplaced ==
    /\ Len(cacheOps) = 3
    /\ cacheOps[1].op = "save"
    /\ cacheOps[2].op = "save"
    /\ cacheOps[2].key # cacheOps[1].key
    /\ cacheOps[3].op = "get"
    /\ cacheOps[3].key = cacheOps[2].key
    /\ cacheOps[3].answer.hit
    /\ KeysHeld = { cacheOps[2].key }

----------------------------------------------------------------------------
(* Consistency of the figures of a report *)

\* the counts of a type histogram, added up
HistogramSum(types) == SumSeq([ i \in DOMAIN types |-> types[i].value ])

\* C31: in every report, for each repository and in yearlyStats, closed <=
\* opened holds for issues and for pull requests, and the counts of the
\* pull-request type histogram sum to the pull-request closed count.
C31_ClosedWithinOpened ==
    /\ MissRunDone =>
          \A i \in OkRepos :
              /\ repoStats[i].issues.closed <= repoStats[i].issues.opened
              /\ repoStats[i].pullRequests.closed <= repoStats[i].pullRequests.opened
              /\ HistogramSum(repoStats[i].pullRequests.types)
                    = repoStats[i].pullRequests.closed
    /\ (pc = "done" /\ result.kind = "report") =>
          /\ result.report.yearlyStats.issues.closed
                <= result.report.yearlyStats.issues.opened
          /\ result.report.yearlyStats.pullRequests.closed
                <= result.report.yearlyStats.pullRequests.opened
          /\ HistogramSum(result.report.yearlyStats.pullRequests.types)
                = result.report.yearlyStats.pullRequests.closed

\* two repositories with open and closed items of both kinds and three types
C31_Witness ==
    /\ MissRunDone
    /\ Cardinality(OkRepos) = 2
    /\ result.report.yearlyStats.pullRequests.closed >= 3
    /\ result.report.yearlyStats.pullRequests.closed
          < result.report.yearlyStats.pullRequests.opened
    /\ result.report.yearlyStats.issues.closed > 0
    /\ result.report.yearlyStats.issues.closed < result.report.yearlyStats.issues.opened
    /\ Len(result.report.yearlyStats.pullRequests.types) >= 3

\* a report answered from the cache
C31_WitnessHit ==
    /\ HitRunDone
    /\ result.report.yearlyStats.pullRequests.closed >= 2

\* the member logins of a report are pairwise distinct
DistinctLogins(memberList) ==
    \A i, j \in DOMAIN memberList : i # j => memberList[i].login # memberList[j].login

\* C32: in every report, yearlyStats.commits equals the sum of commitCount
\* over the report's repos array, and the sum of contributions over the
\* report's members is at most yearlyStats.commits (commit counts being
\* non-negative and member logins distinct).
C32_CommitTotalsAgree ==
    (pc = "done" /\ result.kind = "report") =>
        /\ result.report.yearlyStats.commits =
              SumSeq([ i \in DOMAIN result.report.repos |->
                         result.report.repos[i].commitCount ])
        /\ DistinctLogins(result.report.members) =>
              SumSeq([ i \in DOMAIN result.report.members |->
                         result.report.members[i].contributions ])
                 <= result.report.yearlyStats.commits

\* two repositories with commits, by members and by others, in and out of range
C32_Witness ==
    /\ MissRunDone
    /\ Len(result.report.repos) = 2
    /\ result.report.repos[1].commitCount > 0
    /\ result.report.repos[2].commitCount > result.report.repos[1].commitCount
    /\ Len(result.report.members) = 2
    /\ result.report.members[1].contributions > 0
    /\ SumSeq([ i \in DOMAIN result.report.members |->
                  result.report.members[i].contributions ])
          < result.report.yearlyStats.commits
    /\ \E j \in DOMAIN repoStats[1].contributorStats :
          \E k \in DOMAIN repoStats[1].contributorStats[j].weeks :
              ~InRange(repoStats[1].contributorStats[j].weeks[k].w, FromDate, ToDate)

\* every commit of the range was made by a member
C32_WitnessAllByMembers ==
    /\ MissRunDone
    /\ result.report.yearlyStats.commits > 0
    /\ SumSeq([ i \in DOMAIN result.report.members |->
                  result.report.members[i].contributions ])
          = result.report.yearlyStats.commits

\* the issues of the evaluated list in the order the fold takes them
FoldOrder == SortByCreated(SelectSeq(calc.issues, LAMBDA i : ~i.pull_request))

\* the running total after the first n issues of the fold
RunningAfter(n) ==
    MonthlyFold([stats |-> ZeroMonths, running |-> 0], SubSeq(FoldOrder, 1, n),
                calc.year).running

\* C33: for every issue list, every opened, closed and total value of the
\* series returned by monthlyIssueStats is a non-negative integer, and the
\* running total kept during the fold never drops below 0.
C33_SeriesNonNegative ==
    calc.phase = "monthly" =>
        /\ \A m \in Months :
              /\ calc.monthlyStats[m].opened \in Nat
              /\ calc.monthlyStats[m].closed \in Nat
              /\ calc.monthlyStats[m].total \in Nat
        /\ \A n \in 0 .. Len(FoldOrder) : RunningAfter(n) >= 0

\* an issue from before the year is closed in the year before an issue of
\* the year is created, and the running total is back at 0 in between
C33_Witness ==
    /\ calc.phase = "monthly"
    /\ Len(FoldOrder) = 3
    /\ getFullYear(FoldOrder[1].created_at) < calc.year
    /\ FoldOrder[1].closed_at # NullDate
    /\ getFullYear(FoldOrder[1].closed_at) = calc.year
    /\ RunningAfter(1) = 0
    /\ RunningAfter(3) = 1
    /\ \E m \in Months : calc.monthlyStats[m].closed = 2

\* line 68: the component renders the spinner and the progress bar
LoadingView == dashboard.loading \/ ~dashboard.data.present

\* C34: whenever the dashboard's getOrganization call settles, by success or
\* by a fatal failure, the dashboard leaves the loading view (spinner and
\* progress bar); after a fatal failure the error message is shown and the
\* loading view is no longer displayed.  Stated of the states in which no
\* run is in flight any more: nothing but new credentials changes them.
C34_LoadingViewLeft ==
    (dashboard.mounted /\ AllEffectsSettled) =>
        /\ ~LoadingView
        /\ LatestEffect.status = "rejected" => dashboard.toasts > 0

\* the success half of C34: a resolved run leaves the loading view at once
C34_ResolvedLeavesLoadingView ==
    [][ (dashboard.mounted /\ dashboard'.mounted
           /\ \E k \in DOMAIN dashboard.effects :
                 /\ dashboard.effects[k].status = "pending"
                 /\ dashboard'.effects[k].status = "resolved")
          => (~dashboard'.loading /\ dashboard'.data.present) ]_vars

\* the message half of C34: a rejected run shows its error message and ends loading
C34_RejectedShowsMessage ==
    [][ (dashboard.mounted /\ dashboard'.mounted
           /\ \E k \in DOMAIN dashboard.effects :
                 /\ dashboard.effects[k].status = "pending"
                 /\ dashboard'.effects[k].status = "rejected")
          => (~dashboard'.loading /\ dashboard'.toasts = dashboard.toasts + 1) ]_vars

----------------------------------------------------------------------------
(* Type names of the histogram *)

\* C35: every type name in the mapping returned by categorizePRTypes is a
\* non-empty lower-case string; in particular a branch ref that starts with
\* "/" is counted under "unknown", not under the empty string.
C35_TypeNamesNonEmptyLowerCase ==
    calc.phase = "categorized" =>
        /\ \A key \in ObjKeys(calc.types) : key # << >> /\ toLowerCase(key) = key
        /\ \A i \in DOMAIN calc.prs :
              (calc.prs[i].state = "closed" /\ HasRef(calc.prs[i])
                 /\ Head(calc.prs[i].ref) = "/")
                => PRType(calc.prs[i]) = Unknown

\* the part of C35 that holds: every type name is lower-case
C35_TypeNamesLowerCase ==
    calc.phase = "categorized" =>
        \A key \in ObjKeys(calc.types) : toLowerCase(key) = key

----------------------------------------------------------------------------
(* Properties of getMemberContributions *)

\* the requests in flight of a call
InFlightOf(call) == IF call.phase = "idle" THEN {} ELSE call.inFlight

\* the logins the contributor statistics may name
StatsLogins ==
    UNION { { r.data[j].login : j \in DOMAIN r.data } : r \in ContributorsStatsResponses }
      \ { << >> }

\* the commits of the current year that the response of repository k holds
\* for a login; nothing while it is pending, rejected or without data
ContributedBy(k, login) ==
    LET response == batching.responses[k]
    IN IF response = Pending THEN 0
       ELSE IF response.rejected \/ ~response.hasData THEN 0
       ELSE SumSeq([ j \in DOMAIN response.data |->
                       IF response.data[j].login = login
                       THEN SumSeq([ w \in DOMAIN response.data[j].weeks |->
                                IF getFullYear(response.data[j].weeks[w].w)
                                     = batching.currentYear
                                THEN response.data[j].weeks[w].c ELSE 0 ])
                       ELSE 0 ])

\* C36: getMemberContributions processes the repositories in consecutive
\* batches of at most 5: at most 5 contributor-statistics requests are in
\* flight at any time, batch i+1 starts only after every request of batch i
\* has settled and a 1-second delay has passed, no delay follows the last
\* batch, and a failed request for one repository leaves the totals
\* contributed by all other repositories unchanged.
C36_BatchesOfFive ==
    /\ [](batching.phase # "idle" =>
            /\ Cardinality(batching.inFlight) <= 5
            /\ batching.inFlight # {} => batching.phase = "batch"
            \* the batches are consecutive: everything before the batch has
            \* settled, nothing after it has been requested
            /\ batching.i % 5 = 0
            /\ batching.inFlight \subseteq
                 { k \in DOMAIN batching.repos : batching.i < k /\ k <= batching.i + 5 }
            /\ \A k \in DOMAIN batching.repos :
                  /\ k <= batching.i => batching.responses[k] # Pending
                  /\ k > batching.i + 5 => batching.responses[k] = Pending
                  /\ (batching.phase = "batch" /\ batching.i < k /\ k <= batching.i + 5)
                       => (batching.responses[k] = Pending <=> k \in batching.inFlight)
            \* one 1-second delay between two batches, none after the last
            /\ \A d \in DOMAIN batching.delays : batching.delays[d] = 1000
            /\ Len(batching.delays)
                 = (batching.i \div 5) + (IF batching.phase = "delay" THEN 1 ELSE 0)
            /\ batching.phase = "delay" => batching.i + 5 < Len(batching.repos)
            /\ batching.phase = "returned" =>
                  /\ batching.i + 5 >= Len(batching.repos)
                  /\ \A k \in DOMAIN batching.repos : batching.responses[k] # Pending
            \* the totals are those of the requests that succeeded
            /\ \A login \in StatsLogins :
                  ObjGet(batching.memberStats, login)
                    = SumSeq([ k \in DOMAIN batching.repos |-> ContributedBy(k, login) ])
            /\ ObjKeys(batching.memberStats) \subseteq StatsLogins)
    \* requests are issued by the call and after a delay only, all others settled
    /\ [][ (InFlightOf(batching') \ InFlightOf(batching) # {}) =>
              /\ InFlightOf(batching) = {}
              /\ batching.phase \in { "idle", "delay" }
              /\ batching.phase = "delay" =>
                    /\ batching'.delays = batching.delays
                    /\ \A k \in InFlightOf(batching') : k > batching.i + 5 ]_vars
    \* a rejected request changes no total
    /\ [][ (batching.phase = "batch" /\
            \E k \in batching.inFlight :
                /\ batching'.responses[k] # Pending
                /\ batching'.responses[k].rejected)
             => batching'.memberStats = batching.memberStats ]_vars

\* C36 happens: six repositories, hence two batches with one delay between
\* them, a rejected request in the first batch, and totals from both batches
C36_Witness ==
    /\ batching.phase = "returned"
    /\ Len(batching.repos) = 6
    /\ batching.i = 5
    /\ batching.delays = << 1000 >>
    /\ batching.responses[2].rejected
    /\ batching.responses[1].hasData
    /\ batching.responses[6].hasData
    /\ batching.currentYear = 1
    /\ ObjGet(batching.memberStats, << "a", "l" >>) = 5
    /\ ObjGet(batching.memberStats, << "b", "o" >>) = 1

\* C36 happens with a full last batch: five repositories, no delay at all
C36_WitnessNoDelayAfterLast ==
    /\ batching.phase = "returned"
    /\ Len(batching.repos) = 5
    /\ batching.delays = << >>
    /\ \E k \in 1 .. 5 : batching.responses[k].rejected
    /\ batching.memberStats # << >>

\* C36 happens mid-batch: five requests are in flight at once
C36_WitnessFiveInFlight ==
    /\ batching.phase = "batch"
    /\ Cardinality(batching.inFlight) = 5
    /\ Len(batching.repos) = 6

====
